---- MODULE Spec2Model ----
(***************************************************************************)
(* EasyAgents coordination core: the TaskManager, the LockManager and the  *)
(* AgentManager, each operation a load / mutate / save cycle on the one    *)
(* workflow document kept by the WorkflowStore.                            *)
(*                                                                         *)
(* Identifiers are numbers: task ids and agent ids are handed out by two   *)
(* counters (a generated id is never reused), NULL is JavaScript's null or *)
(* undefined, UnknownTask / UnknownAgent are strings that name nothing in  *)
(* the document.  Time is a counter of clock units; an operation reads the *)
(* clock once.                                                             *)
(***************************************************************************)
EXTENDS Integers, Sequences, FiniteSets, TLC

\* ------------------------------------------------------------------ bounds
MaxTasks == 3
MaxAgents == 2
MaxTime == 2
MaxMods == 4
MaxHistory == 6
MaxTakeoverTasks == 2

\* workflow.config and the 24 hours of the refactor heuristic, in clock units
lock_timeout == 2
inactive_timeout == 1
OneDay == 2
auto_refactor_threshold == 3

NULL == 0
NoMethod == ""
UnknownTask == -1
UnknownAgent == -1

LockAgents == 1..2
RawPaths == {"f.ts", "d/g.ts", "d\\g.ts"}
MethodLists == {<<"*">>, <<"foo">>, <<"bar">>, <<"foo", "bar">>, <<>>}
Reasons == {"r1", "r2"}
Summaries == {"done", "redone"}

VARIABLES
  tasks,                \* workflow.tasks: task id -> Task
  agents,               \* workflow.agents: agent id -> Agent
  locks,                \* workflow.locks: normalized path -> FileLock
  modifications,        \* workflow.modifications
  refactor_suggestions, \* workflow.refactor_suggestions
  localAgentId,         \* the .agent_id file of the store
  now,                  \* the clock
  nextTaskId,           \* ids generateTaskId has handed out so far, plus one
  nextAgentId,          \* ids generateAgentId has handed out so far, plus one
  granted,              \* leases as granted to callers: <<path, agent>> -> grant
  last,                 \* the last call: operation, arguments, result
  procs,                \* concurrent callers: the call each one is in and the
                        \* workflow object it holds in memory
  history               \* what the task calls have done so far: the
                        \* dependencies each task was created with and the
                        \* ids of the tasks that were ever completed

doc == <<tasks, agents, locks, modifications, refactor_suggestions>>
vars == <<tasks, agents, locks, modifications, refactor_suggestions,
          localAgentId, now, nextTaskId, nextAgentId, granted, last, procs,
          history>>

\* ------------------------------------------------------------ array helpers
\* Array.prototype.includes
Includes(s, x) == \E i \in 1..Len(s) : s[i] = x

\* s.filter(id => id !== x)
Without(s, x) == SelectSeq(s, LAMBDA y : y # x)

Range(s) == {s[i] : i \in 1..Len(s)}

\* delete obj[k]
Remove(f, k) == [x \in DOMAIN f \ {k} |-> f[x]]

\* obj[k] = v
Put(f, k, v) == [x \in DOMAIN f \cup {k} |-> IF x = k THEN v ELSE f[x]]

NoInfo == [locked_by |-> NULL, reason |-> "", expires_in_ms |-> 0, methods |-> <<>>]

\* workflow.locks[normalizedPath] when the path has no record.
NoLock == [locked_by |-> NULL, reason |-> "", expires_at |-> 0, methods |-> <<>>]

\* The result of a call, with the arguments it was made with; found is the
\* lock record the call read at its path.
Result(op, ok, msg) ==
  [op |-> op, ok |-> ok, msg |-> msg, task |-> NULL, agent |-> NULL,
   path |-> "", status |-> "", named |-> NULL, ret |-> <<>>, count |-> 0,
   methods |-> <<>>, info |-> NoInfo, found |-> NoLock, summary |-> NULL]

\* No call is in progress: the command that made the last call has printed its
\* result and exited.
Idle == Result("idle", TRUE, "")

\* --------------------------------------------------------------- TaskManager
\* The loop of isTaskAvailable over task.dependencies, from index i on.
\* depsCompleted with the missing-dependency test dropped: an id that names
\* no task is skipped.
RECURSIVE depsCompleted_missingMet(_, _, _)
depsCompleted_missingMet(deps, i, wfTasks) ==
  IF i > Len(deps) THEN TRUE
  ELSE IF deps[i] \in DOMAIN wfTasks /\ wfTasks[deps[i]].status # "completed"
       THEN FALSE
       ELSE depsCompleted_missingMet(deps, i + 1, wfTasks)

\* depsCompleted that reports every dependency as unmet.
depsCompleted_never(deps, i, wfTasks) == i > Len(deps)

RECURSIVE depsCompleted(_, _, _)
depsCompleted(deps, i, wfTasks) ==
  IF i > Len(deps) THEN TRUE
  ELSE IF deps[i] \notin DOMAIN wfTasks \/ wfTasks[deps[i]].status # "completed"
       THEN FALSE
       ELSE depsCompleted(deps, i + 1, wfTasks)

\* isTaskAvailable with the assigned_agent test dropped.
isTaskAvailable_reclaim(task, wfTasks) ==
  IF task.status # "pending" THEN FALSE
  ELSE depsCompleted(task.dependencies, 1, wfTasks)

\* isTaskAvailable with the dependency loop dropped.
isTaskAvailable_ignoreDeps(task, wfTasks) ==
  IF task.status # "pending" THEN FALSE
  ELSE task.assigned_agent = NULL

isTaskAvailable(task, wfTasks) ==
  IF task.status # "pending" THEN FALSE
  ELSE IF task.assigned_agent # NULL THEN FALSE
  ELSE depsCompleted(task.dependencies, 1, wfTasks)

\* addDependents with the includes test dropped: the id is pushed once for
\* every occurrence of the dependency in the list.
RECURSIVE addDependents_dup(_, _, _, _)
addDependents_dup(wfTasks, deps, i, taskId) ==
  IF i > Len(deps) THEN wfTasks
  ELSE LET d == deps[i] IN
       IF d \in DOMAIN wfTasks
       THEN addDependents_dup([wfTasks EXCEPT ![d].dependents = Append(@, taskId)],
                              deps, i + 1, taskId)
       ELSE addDependents_dup(wfTasks, deps, i + 1, taskId)

\* The loop of addTask that registers the new task with its dependencies.
RECURSIVE addDependents(_, _, _, _)
addDependents(wfTasks, deps, i, taskId) ==
  IF i > Len(deps) THEN wfTasks
  ELSE LET d == deps[i] IN
       IF d \in DOMAIN wfTasks /\ ~Includes(wfTasks[d].dependents, taskId)
       THEN addDependents([wfTasks EXCEPT ![d].dependents = Append(@, taskId)],
                          deps, i + 1, taskId)
       ELSE addDependents(wfTasks, deps, i + 1, taskId)

addTask(deps) ==
  /\ nextTaskId <= MaxTasks
  /\ LET taskId == nextTaskId
         task == [status |-> "pending", assigned_agent |-> NULL,
                  dependencies |-> deps, dependents |-> <<>>, result |-> NULL]
     IN /\ tasks' = Put(addDependents(tasks, deps, 1, taskId), taskId, task)
        /\ nextTaskId' = nextTaskId + 1
        /\ last' = [Result("addTask", TRUE, "") EXCEPT !.task = taskId]
  /\ UNCHANGED <<agents, locks, modifications, refactor_suggestions,
                 localAgentId, now, nextAgentId, granted>>

\* claimTask with the push to agent.claimed_tasks dropped.
claimTask_noPush(taskId, agentId) ==
  /\ IF taskId \notin DOMAIN tasks
     THEN /\ last' = [Result("claimTask", FALSE, "not found")
                        EXCEPT !.task = taskId, !.agent = agentId]
          /\ UNCHANGED <<tasks, agents>>
     ELSE LET task == tasks[taskId] IN
       IF ~isTaskAvailable(task, tasks)
       THEN /\ last' = [Result("claimTask", FALSE,
                          IF task.status # "pending" THEN "already status"
                          ELSE IF task.assigned_agent # NULL THEN "already assigned"
                          ELSE "dependencies not completed")
                         EXCEPT !.task = taskId, !.agent = agentId,
                                !.status = IF task.status # "pending"
                                           THEN task.status ELSE "",
                                !.named = IF task.status = "pending"
                                          THEN task.assigned_agent ELSE NULL]
            /\ UNCHANGED <<tasks, agents>>
       ELSE /\ tasks' = [tasks EXCEPT ![taskId].status = "in_progress",
                                      ![taskId].assigned_agent = agentId]
            /\ agents' = IF agentId \in DOMAIN agents
                         THEN [agents EXCEPT ![agentId].last_active = now]
                         ELSE agents
            /\ last' = [Result("claimTask", TRUE, "claimed")
                          EXCEPT !.task = taskId, !.agent = agentId]
  /\ UNCHANGED <<locks, modifications, refactor_suggestions,
                 localAgentId, now, nextTaskId, nextAgentId, granted>>

claimTask(taskId, agentId) ==
  /\ IF taskId \notin DOMAIN tasks
     THEN /\ last' = [Result("claimTask", FALSE, "not found")
                        EXCEPT !.task = taskId, !.agent = agentId]
          /\ UNCHANGED <<tasks, agents>>
     ELSE LET task == tasks[taskId] IN
       IF ~isTaskAvailable(task, tasks)
       THEN /\ last' = [Result("claimTask", FALSE,
                          IF task.status # "pending" THEN "already status"
                          ELSE IF task.assigned_agent # NULL THEN "already assigned"
                          ELSE "dependencies not completed")
                         EXCEPT !.task = taskId, !.agent = agentId,
                                !.status = IF task.status # "pending"
                                           THEN task.status ELSE "",
                                !.named = IF task.status = "pending"
                                          THEN task.assigned_agent ELSE NULL]
            /\ UNCHANGED <<tasks, agents>>
       ELSE /\ tasks' = [tasks EXCEPT ![taskId].status = "in_progress",
                                      ![taskId].assigned_agent = agentId]
            /\ agents' = IF agentId \in DOMAIN agents
                         THEN [agents EXCEPT
                                 ![agentId].claimed_tasks =
                                    IF Includes(@, taskId) THEN @
                                    ELSE Append(@, taskId),
                                 ![agentId].last_active = now]
                         ELSE agents
            /\ last' = [Result("claimTask", TRUE, "claimed")
                          EXCEPT !.task = taskId, !.agent = agentId]
  /\ UNCHANGED <<locks, modifications, refactor_suggestions,
                 localAgentId, now, nextTaskId, nextAgentId, granted>>

\* unblockedTasks with the isTaskAvailable test dropped: every dependent
\* that exists is reported.
RECURSIVE unblockedTasks_all(_, _, _)
unblockedTasks_all(dependents, i, wfTasks) ==
  IF i > Len(dependents) THEN <<>>
  ELSE LET d == dependents[i]
           rest == unblockedTasks_all(dependents, i + 1, wfTasks)
       IN IF d \in DOMAIN wfTasks THEN <<d>> \o rest ELSE rest

\* The loop of completeTask over task.dependents, from index i on.
RECURSIVE unblockedTasks(_, _, _)
unblockedTasks(dependents, i, wfTasks) ==
  IF i > Len(dependents) THEN <<>>
  ELSE LET d == dependents[i]
           rest == unblockedTasks(dependents, i + 1, wfTasks)
       IN IF d \in DOMAIN wfTasks /\ isTaskAvailable(wfTasks[d], wfTasks)
          THEN <<d>> \o rest
          ELSE rest

\* completeTask with the already-completed test dropped.
completeTask_again(taskId, summary) ==
  /\ IF taskId \notin DOMAIN tasks
     THEN /\ last' = [Result("completeTask", FALSE, "not found")
                        EXCEPT !.task = taskId]
          /\ UNCHANGED <<tasks, agents>>
     ELSE LET task == tasks[taskId]
              wfTasks == [tasks EXCEPT ![taskId].status = "completed",
                                       ![taskId].result = summary]
          IN /\ tasks' = wfTasks
             /\ agents' = IF task.assigned_agent # NULL
                             /\ task.assigned_agent \in DOMAIN agents
                          THEN [agents EXCEPT
                                  ![task.assigned_agent].claimed_tasks =
                                     Without(@, taskId),
                                  ![task.assigned_agent].last_active = now]
                          ELSE agents
             /\ last' = [Result("completeTask", TRUE, "completed")
                           EXCEPT !.task = taskId, !.summary = summary,
                                  !.ret = unblockedTasks(task.dependents, 1, wfTasks)]
  /\ UNCHANGED <<locks, modifications, refactor_suggestions,
                 localAgentId, now, nextTaskId, nextAgentId, granted>>

\* completeTask with the removal from the assignee's claimed_tasks dropped.
completeTask_keepClaim(taskId, summary) ==
  /\ IF taskId \notin DOMAIN tasks
     THEN /\ last' = [Result("completeTask", FALSE, "not found")
                        EXCEPT !.task = taskId]
          /\ UNCHANGED <<tasks, agents>>
     ELSE LET task == tasks[taskId] IN
       IF task.status = "completed"
       THEN /\ last' = [Result("completeTask", FALSE, "already completed")
                          EXCEPT !.task = taskId]
            /\ UNCHANGED <<tasks, agents>>
       ELSE LET wfTasks == [tasks EXCEPT ![taskId].status = "completed",
                                         ![taskId].result = summary]
            IN /\ tasks' = wfTasks
               /\ agents' = IF task.assigned_agent # NULL
                               /\ task.assigned_agent \in DOMAIN agents
                            THEN [agents EXCEPT
                                    ![task.assigned_agent].last_active = now]
                            ELSE agents
               /\ last' = [Result("completeTask", TRUE, "completed")
                             EXCEPT !.task = taskId, !.summary = summary,
                                    !.ret = unblockedTasks(task.dependents, 1, wfTasks)]
  /\ UNCHANGED <<locks, modifications, refactor_suggestions,
                 localAgentId, now, nextTaskId, nextAgentId, granted>>

completeTask(taskId, summary) ==
  /\ IF taskId \notin DOMAIN tasks
     THEN /\ last' = [Result("completeTask", FALSE, "not found")
                        EXCEPT !.task = taskId]
          /\ UNCHANGED <<tasks, agents>>
     ELSE LET task == tasks[taskId] IN
       IF task.status = "completed"
       THEN /\ last' = [Result("completeTask", FALSE, "already completed")
                          EXCEPT !.task = taskId]
            /\ UNCHANGED <<tasks, agents>>
       ELSE LET wfTasks == [tasks EXCEPT ![taskId].status = "completed",
                                         ![taskId].result = summary]
            IN /\ tasks' = wfTasks
               /\ agents' = IF task.assigned_agent # NULL
                               /\ task.assigned_agent \in DOMAIN agents
                            THEN [agents EXCEPT
                                    ![task.assigned_agent].claimed_tasks =
                                       Without(@, taskId),
                                    ![task.assigned_agent].last_active = now]
                            ELSE agents
               /\ last' = [Result("completeTask", TRUE, "completed")
                             EXCEPT !.task = taskId, !.summary = summary,
                                    !.ret = unblockedTasks(task.dependents, 1, wfTasks)]
  /\ UNCHANGED <<locks, modifications, refactor_suggestions,
                 localAgentId, now, nextTaskId, nextAgentId, granted>>

updateTaskStatus(taskId, status) ==
  /\ IF taskId \notin DOMAIN tasks
     THEN /\ last' = [Result("updateTaskStatus", FALSE, "not found")
                        EXCEPT !.task = taskId]
          /\ UNCHANGED tasks
     ELSE /\ tasks' = [tasks EXCEPT ![taskId].status = status]
          /\ last' = [Result("updateTaskStatus", TRUE, "")
                        EXCEPT !.task = taskId, !.status = status]
  /\ UNCHANGED <<agents, locks, modifications, refactor_suggestions,
                 localAgentId, now, nextTaskId, nextAgentId, granted>>

\* The two repair loops of deleteTask.
stripDependents(wfTasks, taskId) ==
  [t \in DOMAIN wfTasks |->
     IF Includes(wfTasks[taskId].dependencies, t)
     THEN [wfTasks[t] EXCEPT !.dependents = Without(@, taskId)]
     ELSE wfTasks[t]]

\* stripDependencies with the loop over the dependents dropped.
stripDependencies_none(wfTasks, taskId, dependents) == wfTasks

\* stripDependencies emptying the dependencies of every dependent.
stripDependencies_all(wfTasks, taskId, dependents) ==
  [t \in DOMAIN wfTasks |->
     IF Includes(dependents, t)
     THEN [wfTasks[t] EXCEPT !.dependencies = <<>>]
     ELSE wfTasks[t]]

stripDependencies(wfTasks, taskId, dependents) ==
  [t \in DOMAIN wfTasks |->
     IF Includes(dependents, t)
     THEN [wfTasks[t] EXCEPT !.dependencies = Without(@, taskId)]
     ELSE wfTasks[t]]

deleteTask(taskId) ==
  /\ IF taskId \notin DOMAIN tasks
     THEN /\ last' = [Result("deleteTask", FALSE, "not found")
                        EXCEPT !.task = taskId]
          /\ UNCHANGED <<tasks, agents>>
     ELSE LET task == tasks[taskId]
              w1 == stripDependents(tasks, taskId)
              w2 == stripDependencies(w1, taskId, w1[taskId].dependents)
          IN /\ tasks' = Remove(w2, taskId)
             /\ agents' = IF task.assigned_agent # NULL
                             /\ task.assigned_agent \in DOMAIN agents
                          THEN [agents EXCEPT
                                  ![task.assigned_agent].claimed_tasks =
                                     Without(@, taskId)]
                          ELSE agents
             /\ last' = [Result("deleteTask", TRUE, "")
                           EXCEPT !.task = taskId,
                                  !.status = task.status,
                                  !.named = task.assigned_agent,
                                  !.ret = task.dependents]
  /\ UNCHANGED <<locks, modifications, refactor_suggestions,
                 localAgentId, now, nextTaskId, nextAgentId, granted>>

\* -------------------------------------------------------------- AgentManager
\* getOrCreateCurrentAgent on the agents of a freshly loaded document: the
\* agents it saves, the id it returns and the claim set of the returned object.
\* getOrCreateCurrentAgent with the lookup of the local identity dropped: a
\* new agent is created on every call.
resolveCurrentAgent_mint(wfAgents) ==
  [agents |-> Put(wfAgents, nextAgentId,
                  [claimed_tasks |-> <<>>, status |-> "active",
                   last_active |-> now]),
   id |-> nextAgentId, minted |-> TRUE]

resolveCurrentAgent(wfAgents) ==
  IF localAgentId # NULL /\ localAgentId \in DOMAIN wfAgents
  THEN [agents |-> [wfAgents EXCEPT ![localAgentId].last_active = now,
                                    ![localAgentId].status = "active"],
        id |-> localAgentId, minted |-> FALSE]
  ELSE [agents |-> Put(wfAgents, nextAgentId,
                       [claimed_tasks |-> <<>>, status |-> "active",
                        last_active |-> now]),
        id |-> nextAgentId, minted |-> TRUE]

canResolve == (localAgentId # NULL /\ localAgentId \in DOMAIN agents)
              \/ nextAgentId <= MaxAgents

getOrCreateCurrentAgent ==
  /\ canResolve
  /\ LET r == resolveCurrentAgent(agents) IN
       /\ agents' = r.agents
       /\ localAgentId' = r.id
       /\ nextAgentId' = IF r.minted THEN nextAgentId + 1 ELSE nextAgentId
       /\ last' = [Result("getOrCreateCurrentAgent", TRUE,
                           IF r.minted THEN "minted" ELSE "resolved")
                     EXCEPT !.agent = r.id]
  /\ UNCHANGED <<tasks, locks, modifications, refactor_suggestions,
                 now, nextTaskId, granted>>

\* The ids of ids, most recently active first; ties keep the order of
\* Object.values, which is the order of creation.
RECURSIVE sortByLastActive(_, _)
sortByLastActive(wfAgents, ids) ==
  IF ids = {} THEN <<>>
  ELSE LET first == CHOOSE a \in ids : \A b \in ids :
                      \/ wfAgents[a].last_active > wfAgents[b].last_active
                      \/ (wfAgents[a].last_active = wfAgents[b].last_active /\ a <= b)
       IN <<first>> \o sortByLastActive(wfAgents, ids \ {first})

\* listAgents with the test against the inactivity window made non-strict: an
\* agent last active exactly inactive_timeout ago is reclassified.
listAgents_atTimeout(includeTerminated) ==
  /\ LET wfAgents == [a \in DOMAIN agents |->
                        IF agents[a].status = "active"
                           /\ now - agents[a].last_active >= inactive_timeout
                        THEN [agents[a] EXCEPT !.status = "inactive"]
                        ELSE agents[a]]
         listed == {a \in DOMAIN wfAgents :
                      includeTerminated \/ wfAgents[a].status # "terminated"}
     IN /\ agents' = wfAgents
        /\ last' = [Result("listAgents", TRUE,
                           IF includeTerminated THEN "all" ELSE "not terminated")
                      EXCEPT !.ret = sortByLastActive(wfAgents, listed),
                             !.count = Cardinality({a \in DOMAIN agents :
                                          wfAgents[a].status # agents[a].status})]
  /\ UNCHANGED <<tasks, locks, modifications, refactor_suggestions,
                 localAgentId, now, nextTaskId, nextAgentId, granted>>

\* The result carries the includeTerminated argument (msg) and the number of
\* agents the call reclassified (count).
listAgents(includeTerminated) ==
  /\ LET wfAgents == [a \in DOMAIN agents |->
                        IF agents[a].status = "active"
                           /\ now - agents[a].last_active > inactive_timeout
                        THEN [agents[a] EXCEPT !.status = "inactive"]
                        ELSE agents[a]]
         listed == {a \in DOMAIN wfAgents :
                      includeTerminated \/ wfAgents[a].status # "terminated"}
     IN /\ agents' = wfAgents
        /\ last' = [Result("listAgents", TRUE,
                           IF includeTerminated THEN "all" ELSE "not terminated")
                      EXCEPT !.ret = sortByLastActive(wfAgents, listed),
                             !.count = Cardinality({a \in DOMAIN agents :
                                          wfAgents[a].status # agents[a].status})]
  /\ UNCHANGED <<tasks, locks, modifications, refactor_suggestions,
                 localAgentId, now, nextTaskId, nextAgentId, granted>>

\* The name of an agent is not part of the model: renameAgent refreshes
\* last_active.
renameAgent ==
  /\ IF localAgentId = NULL \/ localAgentId \notin DOMAIN agents
     THEN /\ last' = Result("renameAgent", FALSE, "")
          /\ UNCHANGED agents
     ELSE /\ agents' = [agents EXCEPT ![localAgentId].last_active = now]
          /\ last' = [Result("renameAgent", TRUE, "") EXCEPT !.agent = localAgentId]
  /\ UNCHANGED <<tasks, locks, modifications, refactor_suggestions,
                 localAgentId, now, nextTaskId, nextAgentId, granted>>

touchAgent ==
  /\ IF localAgentId = NULL \/ localAgentId \notin DOMAIN agents
     THEN /\ last' = Result("touchAgent", FALSE, "")
          /\ UNCHANGED agents
     ELSE /\ agents' = [agents EXCEPT ![localAgentId].last_active = now,
                                      ![localAgentId].status = "active"]
          /\ last' = [Result("touchAgent", TRUE, "") EXCEPT !.agent = localAgentId]
  /\ UNCHANGED <<tasks, locks, modifications, refactor_suggestions,
                 localAgentId, now, nextTaskId, nextAgentId, granted>>

\* deactivateAgent that marks the agent terminated.
deactivateAgent_terminate ==
  /\ IF localAgentId = NULL \/ localAgentId \notin DOMAIN agents
     THEN /\ last' = Result("deactivateAgent", FALSE, "")
          /\ UNCHANGED <<agents, localAgentId>>
     ELSE /\ agents' = [agents EXCEPT ![localAgentId].status = "terminated"]
          /\ localAgentId' = NULL
          /\ last' = [Result("deactivateAgent", TRUE, "")
                        EXCEPT !.agent = localAgentId]
  /\ UNCHANGED <<tasks, locks, modifications, refactor_suggestions,
                 now, nextTaskId, nextAgentId, granted>>

deactivateAgent ==
  /\ IF localAgentId = NULL \/ localAgentId \notin DOMAIN agents
     THEN /\ last' = Result("deactivateAgent", FALSE, "")
          /\ UNCHANGED <<agents, localAgentId>>
     ELSE /\ agents' = [agents EXCEPT ![localAgentId].status = "inactive"]
          /\ localAgentId' = NULL
          /\ last' = [Result("deactivateAgent", TRUE, "")
                        EXCEPT !.agent = localAgentId]
  /\ UNCHANGED <<tasks, locks, modifications, refactor_suggestions,
                 now, nextTaskId, nextAgentId, granted>>

\* cleanupTerminatedAgents with the status test dropped: every agent last
\* active before the cutoff is deleted.
cleanupTerminatedAgents_any(olderThanDays) ==
  /\ LET cutoff == now - olderThanDays * OneDay
         removed == {a \in DOMAIN agents : agents[a].last_active < cutoff}
     IN /\ agents' = [a \in DOMAIN agents \ removed |-> agents[a]]
        /\ last' = [Result("cleanupTerminatedAgents", TRUE, "")
                      EXCEPT !.count = Cardinality(removed),
                             !.named = olderThanDays]
  /\ UNCHANGED <<tasks, locks, modifications, refactor_suggestions,
                 localAgentId, now, nextTaskId, nextAgentId, granted>>

\* The result carries the olderThanDays argument (named) and the returned
\* number (count).
cleanupTerminatedAgents(olderThanDays) ==
  /\ LET cutoff == now - olderThanDays * OneDay
         removed == {a \in DOMAIN agents :
                       agents[a].status = "terminated"
                       /\ agents[a].last_active < cutoff}
     IN /\ agents' = [a \in DOMAIN agents \ removed |-> agents[a]]
        /\ last' = [Result("cleanupTerminatedAgents", TRUE, "")
                      EXCEPT !.count = Cardinality(removed),
                             !.named = olderThanDays]
  /\ UNCHANGED <<tasks, locks, modifications, refactor_suggestions,
                 localAgentId, now, nextTaskId, nextAgentId, granted>>

\* The workflow.tasks that takeoverAgent saves: the loop over inheritedTasks.
transferTasks(wfTasks, inheritedTasks, currentId) ==
  [t \in DOMAIN wfTasks |->
     IF Includes(inheritedTasks, t)
     THEN [wfTasks[t] EXCEPT !.assigned_agent = currentId]
     ELSE wfTasks[t]]

\* transferLocks with the loop over the locks dropped.
transferLocks_none(wfLocks, targetAgentId, currentId) == wfLocks

\* The workflow.locks that takeoverAgent saves.
transferLocks(wfLocks, targetAgentId, currentId) ==
  [p \in DOMAIN wfLocks |->
     IF wfLocks[p].locked_by = targetAgentId
     THEN [wfLocks[p] EXCEPT !.locked_by = currentId]
     ELSE wfLocks[p]]

\* takeoverAgent with the test for the caller's own identity dropped.
takeoverAgent_self(targetAgentId) ==
  IF targetAgentId \notin DOMAIN agents
  THEN /\ last' = [Result("takeoverAgent", FALSE, "not found")
                     EXCEPT !.agent = targetAgentId]
       /\ UNCHANGED <<tasks, agents, locks, modifications, refactor_suggestions,
                      localAgentId, now, nextTaskId, nextAgentId, granted>>
  ELSE IF agents[targetAgentId].status = "terminated"
  THEN /\ last' = [Result("takeoverAgent", FALSE, "already terminated")
                     EXCEPT !.agent = targetAgentId]
       /\ UNCHANGED <<tasks, agents, locks, modifications, refactor_suggestions,
                      localAgentId, now, nextTaskId, nextAgentId, granted>>
  ELSE /\ canResolve
       /\ LET r == resolveCurrentAgent(agents)
              inheritedTasks == agents[targetAgentId].claimed_tasks
          IN /\ localAgentId' = r.id
             /\ nextAgentId' = IF r.minted THEN nextAgentId + 1 ELSE nextAgentId
             /\ IF FALSE
                THEN UNCHANGED <<tasks, agents, locks, granted, last, history>>
                ELSE /\ tasks' = transferTasks(tasks, inheritedTasks, r.id)
                     /\ agents' = [agents EXCEPT
                                     ![targetAgentId].status = "terminated",
                                     ![targetAgentId].claimed_tasks = <<>>]
                     /\ locks' = transferLocks(locks, targetAgentId, r.id)
                     /\ granted' = [k \in {g \in DOMAIN granted :
                                              g[2] # targetAgentId} |-> granted[k]]
                     /\ last' = [Result("takeoverAgent", TRUE,
                                        IF r.minted THEN "minted" ELSE "resolved")
                                   EXCEPT !.agent = targetAgentId,
                                          !.named = r.id,
                                          !.ret = inheritedTasks]
       /\ UNCHANGED <<modifications, refactor_suggestions, now, nextTaskId>>

\* takeoverAgent loads the document (workflow), then getOrCreateCurrentAgent
\* loads it again, saves its own copy and returns an agent object of that
\* copy; the pushes to currentAgent.claimed_tasks and its last_active land in
\* that object, and the final save writes workflow, the first copy.
takeoverAgent(targetAgentId) ==
  IF targetAgentId \notin DOMAIN agents
  THEN /\ last' = [Result("takeoverAgent", FALSE, "not found")
                     EXCEPT !.agent = targetAgentId]
       /\ UNCHANGED <<tasks, agents, locks, modifications, refactor_suggestions,
                      localAgentId, now, nextTaskId, nextAgentId, granted>>
  ELSE IF agents[targetAgentId].status = "terminated"
  THEN /\ last' = [Result("takeoverAgent", FALSE, "already terminated")
                     EXCEPT !.agent = targetAgentId]
       /\ UNCHANGED <<tasks, agents, locks, modifications, refactor_suggestions,
                      localAgentId, now, nextTaskId, nextAgentId, granted>>
  ELSE /\ canResolve
       /\ LET r == resolveCurrentAgent(agents)
              inheritedTasks == agents[targetAgentId].claimed_tasks
          IN /\ localAgentId' = r.id
             /\ nextAgentId' = IF r.minted THEN nextAgentId + 1 ELSE nextAgentId
             /\ IF r.id = targetAgentId
                THEN /\ agents' = r.agents
                     /\ last' = [Result("takeoverAgent", FALSE, "yourself")
                                   EXCEPT !.agent = targetAgentId, !.named = r.id]
                     /\ UNCHANGED <<tasks, locks, granted>>
                ELSE /\ tasks' = transferTasks(tasks, inheritedTasks, r.id)
                     /\ agents' = [agents EXCEPT
                                     ![targetAgentId].status = "terminated",
                                     ![targetAgentId].claimed_tasks = <<>>]
                     /\ locks' = transferLocks(locks, targetAgentId, r.id)
                     /\ granted' = [k \in {g \in DOMAIN granted :
                                              g[2] # targetAgentId} |-> granted[k]]
                     /\ last' = [Result("takeoverAgent", TRUE,
                                        IF r.minted THEN "minted" ELSE "resolved")
                                   EXCEPT !.agent = targetAgentId,
                                          !.named = r.id,
                                          !.ret = inheritedTasks]
       /\ UNCHANGED <<modifications, refactor_suggestions, now, nextTaskId>>

\* --------------------------------------------------------------- LockManager
\* WorkflowStore.normalizePath: every backslash becomes a slash.
normalizePath(filePath) == IF filePath = "d\\g.ts" THEN "d/g.ts" ELSE filePath

\* isLockExpired with < for <=: a lease lasts through its expiry instant.
isLockExpired_strict(lock) == lock.expires_at < now

isLockExpired(lock) == lock.expires_at <= now

\* methodsConflict with the wildcard test dropped.
methodsConflict_overlapOnly(requestedMethods, lockedMethods) ==
  \E i \in 1..Len(requestedMethods) : Includes(lockedMethods, requestedMethods[i])

methodsConflict(requestedMethods, lockedMethods) ==
  IF Includes(lockedMethods, "*") \/ Includes(requestedMethods, "*")
  THEN TRUE
  ELSE \E i \in 1..Len(requestedMethods) : Includes(lockedMethods, requestedMethods[i])

\* The spread without the Set: every element is kept.
dedup_keep(s) == s

\* [...new Set(s)]: the first occurrence of every element, in order.
RECURSIVE dedup(_)
dedup(s) ==
  IF s = <<>> THEN <<>>
  ELSE LET front == dedup(SubSeq(s, 1, Len(s) - 1))
           x == s[Len(s)]
       IN IF Includes(front, x) THEN front ELSE Append(front, x)

\* The lease the caller was told it has: the methods of its successful
\* acquires on the path since its last release, and the expiry of the latest.
grant(filePath, agentId, methods, expires_at) ==
  LET k == <<filePath, agentId>>
      held == IF k \in DOMAIN granted /\ granted[k].expires_at > now
              THEN granted[k].methods ELSE {}
  IN Put(granted, k, [methods |-> held \cup Range(methods), expires_at |-> expires_at])

\* createLock that merges into the record it finds instead of replacing it.
createLock_merge(wfLocks, filePath, agentId, methods, reason, timeout) ==
  Put(wfLocks, filePath,
      [locked_by |-> agentId, expires_at |-> now + timeout,
       methods |-> IF filePath \in DOMAIN wfLocks
                   THEN wfLocks[filePath].methods \o methods ELSE methods,
       reason |-> reason])

\* The workflow.locks that createLock saves.
createLock(wfLocks, filePath, agentId, methods, reason, timeout) ==
  Put(wfLocks, filePath,
      [locked_by |-> agentId, expires_at |-> now + timeout,
       methods |-> methods, reason |-> reason])

\* acquireLock whose extension keeps the later of the two expiries.
acquireLock_keepLater(filePath, agentId, optMethods, reason, optTimeout) ==
  /\ LET normalizedPath == normalizePath(filePath)
         requestedMethods == IF optMethods = <<>> THEN <<"*">> ELSE optMethods[1]
         timeout == IF optTimeout = NULL THEN lock_timeout ELSE optTimeout
         call == [Result("acquireLock", TRUE, "")
                    EXCEPT !.path = normalizedPath, !.agent = agentId,
                           !.methods = optMethods, !.count = timeout,
                           !.found = IF normalizedPath \in DOMAIN locks
                                     THEN locks[normalizedPath] ELSE NoLock]
         expired == normalizedPath \in DOMAIN locks
                    /\ isLockExpired(locks[normalizedPath])
         wfLocks == IF expired THEN Remove(locks, normalizedPath) ELSE locks
     IN IF normalizedPath \in DOMAIN wfLocks
        THEN LET existingLock == wfLocks[normalizedPath] IN
          IF existingLock.locked_by = agentId
          THEN /\ locks' = [wfLocks EXCEPT
                              ![normalizedPath].expires_at =
                                 IF @ > now + timeout THEN @ ELSE now + timeout,
                              ![normalizedPath].methods =
                                 dedup(existingLock.methods \o requestedMethods)]
               /\ granted' = grant(normalizedPath, agentId, requestedMethods,
                                   now + timeout)
               /\ last' = [call EXCEPT !.msg = "extended"]
          ELSE IF ~methodsConflict(requestedMethods, existingLock.methods)
          THEN /\ locks' = createLock(wfLocks, normalizedPath, agentId,
                                      requestedMethods, reason, timeout)
               /\ granted' = grant(normalizedPath, agentId, requestedMethods,
                                   now + timeout)
               /\ last' = [call EXCEPT !.msg = "acquired"]
          ELSE /\ last' = [call EXCEPT
                             !.ok = FALSE, !.msg = "locked",
                             !.info = [locked_by |-> existingLock.locked_by,
                                       reason |-> existingLock.reason,
                                       expires_in_ms |->
                                          existingLock.expires_at - now,
                                       methods |-> existingLock.methods]]
               /\ UNCHANGED <<locks, granted>>
        ELSE /\ locks' = createLock(wfLocks, normalizedPath, agentId,
                                    requestedMethods, reason, timeout)
             /\ granted' = grant(normalizedPath, agentId, requestedMethods,
                                 now + timeout)
             /\ last' = [call EXCEPT !.msg = "acquired"]
  /\ UNCHANGED <<tasks, agents, modifications, refactor_suggestions,
                 localAgentId, now, nextTaskId, nextAgentId>>

\* optMethods: <<>> when options.methods is omitted, otherwise <<methods>>;
\* optTimeout = NULL: options.timeout omitted or 0.
acquireLock(filePath, agentId, optMethods, reason, optTimeout) ==
  /\ LET normalizedPath == normalizePath(filePath)
         requestedMethods == IF optMethods = <<>> THEN <<"*">> ELSE optMethods[1]
         timeout == IF optTimeout = NULL THEN lock_timeout ELSE optTimeout
         call == [Result("acquireLock", TRUE, "")
                    EXCEPT !.path = normalizedPath, !.agent = agentId,
                           !.methods = optMethods, !.count = timeout,
                           !.found = IF normalizedPath \in DOMAIN locks
                                     THEN locks[normalizedPath] ELSE NoLock]
         expired == normalizedPath \in DOMAIN locks
                    /\ isLockExpired(locks[normalizedPath])
         wfLocks == IF expired THEN Remove(locks, normalizedPath) ELSE locks
     IN IF normalizedPath \in DOMAIN wfLocks
        THEN LET existingLock == wfLocks[normalizedPath] IN
          IF existingLock.locked_by = agentId
          THEN /\ locks' = [wfLocks EXCEPT
                              ![normalizedPath].expires_at = now + timeout,
                              ![normalizedPath].methods =
                                 dedup(existingLock.methods \o requestedMethods)]
               /\ granted' = grant(normalizedPath, agentId, requestedMethods,
                                   now + timeout)
               /\ last' = [call EXCEPT !.msg = "extended"]
          ELSE IF ~methodsConflict(requestedMethods, existingLock.methods)
          THEN /\ locks' = createLock(wfLocks, normalizedPath, agentId,
                                      requestedMethods, reason, timeout)
               /\ granted' = grant(normalizedPath, agentId, requestedMethods,
                                   now + timeout)
               /\ last' = [call EXCEPT !.msg = "acquired"]
          ELSE /\ last' = [call EXCEPT
                             !.ok = FALSE, !.msg = "locked",
                             !.info = [locked_by |-> existingLock.locked_by,
                                       reason |-> existingLock.reason,
                                       expires_in_ms |->
                                          existingLock.expires_at - now,
                                       methods |-> existingLock.methods]]
               /\ UNCHANGED <<locks, granted>>
        ELSE /\ locks' = createLock(wfLocks, normalizedPath, agentId,
                                    requestedMethods, reason, timeout)
             /\ granted' = grant(normalizedPath, agentId, requestedMethods,
                                 now + timeout)
             /\ last' = [call EXCEPT !.msg = "acquired"]
  /\ UNCHANGED <<tasks, agents, modifications, refactor_suggestions,
                 localAgentId, now, nextTaskId, nextAgentId>>

\* checkRefactorSuggestion with the search for an existing suggestion dropped.
checkRefactorSuggestion_again(wfMods, wfSuggestions, filePath, method) ==
  LET threshold == auto_refactor_threshold
      oneDayAgo == now - OneDay
      recentMods == SelectSeq(wfMods, LAMBDA m :
                      /\ m.file = filePath
                      /\ (method = NoMethod \/ m.method = method)
                      /\ m.modified_at > oneDayAgo)
  IN IF Len(recentMods) >= threshold
     THEN Append(wfSuggestions,
                 [id |-> now, file |-> filePath, method |-> method,
                  count |-> Len(recentMods),
                  priority |-> IF Len(recentMods) >= threshold * 2
                               THEN "high" ELSE "medium"])
     ELSE wfSuggestions

\* checkRefactorSuggestion with every new suggestion given priority medium.
checkRefactorSuggestion_medium(wfMods, wfSuggestions, filePath, method) ==
  LET threshold == auto_refactor_threshold
      oneDayAgo == now - OneDay
      recentMods == SelectSeq(wfMods, LAMBDA m :
                      /\ m.file = filePath
                      /\ (method = NoMethod \/ m.method = method)
                      /\ m.modified_at > oneDayAgo)
      existingSuggestion == \E i \in 1..Len(wfSuggestions) :
                      /\ wfSuggestions[i].file = filePath
                      /\ (method = NoMethod \/ wfSuggestions[i].method = method)
  IN IF Len(recentMods) >= threshold /\ ~existingSuggestion
     THEN Append(wfSuggestions,
                 [id |-> now, file |-> filePath, method |-> method,
                  count |-> Len(recentMods), priority |-> "medium"])
     ELSE wfSuggestions

\* checkRefactorSuggestion with the priority of the existing suggestion
\* raised once the count has reached twice the threshold.
checkRefactorSuggestion_escalate(wfMods, wfSuggestions, filePath, method) ==
  LET threshold == auto_refactor_threshold
      oneDayAgo == now - OneDay
      recentMods == SelectSeq(wfMods, LAMBDA m :
                      /\ m.file = filePath
                      /\ (method = NoMethod \/ m.method = method)
                      /\ m.modified_at > oneDayAgo)
      existingSuggestion == \E i \in 1..Len(wfSuggestions) :
                      /\ wfSuggestions[i].file = filePath
                      /\ (method = NoMethod \/ wfSuggestions[i].method = method)
  IN IF Len(recentMods) >= threshold /\ ~existingSuggestion
     THEN Append(wfSuggestions,
                 [id |-> now, file |-> filePath, method |-> method,
                  count |-> Len(recentMods),
                  priority |-> IF Len(recentMods) >= threshold * 2
                               THEN "high" ELSE "medium"])
     ELSE IF Len(recentMods) >= threshold * 2
     THEN [i \in 1..Len(wfSuggestions) |->
             IF wfSuggestions[i].file = filePath
                /\ (method = NoMethod \/ wfSuggestions[i].method = method)
             THEN [wfSuggestions[i] EXCEPT !.priority = "high"]
             ELSE wfSuggestions[i]]
     ELSE wfSuggestions

\* The suggestions after checkRefactorSuggestion, given the modifications
\* that already hold the one just recorded.
checkRefactorSuggestion(wfMods, wfSuggestions, filePath, method) ==
  LET threshold == auto_refactor_threshold
      oneDayAgo == now - OneDay
      recentMods == SelectSeq(wfMods, LAMBDA m :
                      /\ m.file = filePath
                      /\ (method = NoMethod \/ m.method = method)
                      /\ m.modified_at > oneDayAgo)
      existingSuggestion == \E i \in 1..Len(wfSuggestions) :
                      /\ wfSuggestions[i].file = filePath
                      /\ (method = NoMethod \/ wfSuggestions[i].method = method)
  IN IF Len(recentMods) >= threshold /\ ~existingSuggestion
     THEN Append(wfSuggestions,
                 [id |-> now, file |-> filePath, method |-> method,
                  count |-> Len(recentMods),
                  priority |-> IF Len(recentMods) >= threshold * 2
                               THEN "high" ELSE "medium"])
     ELSE wfSuggestions

\* modification: <<>> when none is supplied, otherwise <<method>>, the method
\* being NoMethod when the modification names none.
NoModification == <<>>

\* releaseLock with the owner test dropped.
releaseLock_anyone(filePath, agentId, modification) ==
  /\ LET normalizedPath == normalizePath(filePath) IN
     IF normalizedPath \notin DOMAIN locks
     THEN /\ last' = [Result("releaseLock", FALSE, "no lock")
                        EXCEPT !.path = normalizedPath, !.agent = agentId,
                               !.methods = modification]
          /\ UNCHANGED <<locks, modifications, refactor_suggestions, granted>>
     ELSE /\ modification # NoModification => Len(modifications) < MaxHistory
          /\ IF modification # NoModification
             THEN LET mod == [file |-> normalizedPath, method |-> modification[1],
                              modified_by |-> agentId, modified_at |-> now]
                      wfMods == Append(modifications, mod)
                  IN /\ modifications' = wfMods
                     /\ refactor_suggestions' =
                          checkRefactorSuggestion(wfMods, refactor_suggestions,
                                                  normalizedPath, modification[1])
             ELSE UNCHANGED <<modifications, refactor_suggestions>>
          /\ locks' = Remove(locks, normalizedPath)
          /\ granted' = Remove(granted, <<normalizedPath, agentId>>)
          /\ last' = [Result("releaseLock", TRUE, "released")
                        EXCEPT !.path = normalizedPath, !.agent = agentId,
                               !.methods = modification]
  /\ UNCHANGED <<tasks, agents, localAgentId, now, nextTaskId, nextAgentId>>

\* releaseLock with the new record put at the head of the history.
releaseLock_prepend(filePath, agentId, modification) ==
  /\ LET normalizedPath == normalizePath(filePath) IN
     IF normalizedPath \notin DOMAIN locks
     THEN /\ last' = [Result("releaseLock", FALSE, "no lock")
                        EXCEPT !.path = normalizedPath, !.agent = agentId,
                               !.methods = modification]
          /\ UNCHANGED <<locks, modifications, refactor_suggestions, granted>>
     ELSE IF locks[normalizedPath].locked_by # agentId
     THEN /\ last' = [Result("releaseLock", FALSE, "not owner")
                        EXCEPT !.path = normalizedPath, !.agent = agentId,
                               !.methods = modification,
                               !.named = locks[normalizedPath].locked_by]
          /\ UNCHANGED <<locks, modifications, refactor_suggestions, granted>>
     ELSE /\ modification # NoModification => Len(modifications) < MaxHistory
          /\ IF modification # NoModification
             THEN LET mod == [file |-> normalizedPath, method |-> modification[1],
                              modified_by |-> agentId, modified_at |-> now]
                      wfMods == <<mod>> \o modifications
                  IN /\ modifications' = wfMods
                     /\ refactor_suggestions' =
                          checkRefactorSuggestion(wfMods, refactor_suggestions,
                                                  normalizedPath, modification[1])
             ELSE UNCHANGED <<modifications, refactor_suggestions>>
          /\ locks' = Remove(locks, normalizedPath)
          /\ granted' = Remove(granted, <<normalizedPath, agentId>>)
          /\ last' = [Result("releaseLock", TRUE, "released")
                        EXCEPT !.path = normalizedPath, !.agent = agentId,
                               !.methods = modification]
  /\ UNCHANGED <<tasks, agents, localAgentId, now, nextTaskId, nextAgentId>>

releaseLock(filePath, agentId, modification) ==
  /\ LET normalizedPath == normalizePath(filePath) IN
     IF normalizedPath \notin DOMAIN locks
     THEN /\ last' = [Result("releaseLock", FALSE, "no lock")
                        EXCEPT !.path = normalizedPath, !.agent = agentId,
                               !.methods = modification]
          /\ UNCHANGED <<locks, modifications, refactor_suggestions, granted>>
     ELSE IF locks[normalizedPath].locked_by # agentId
     THEN /\ last' = [Result("releaseLock", FALSE, "not owner")
                        EXCEPT !.path = normalizedPath, !.agent = agentId,
                               !.methods = modification,
                               !.named = locks[normalizedPath].locked_by]
          /\ UNCHANGED <<locks, modifications, refactor_suggestions, granted>>
     ELSE /\ modification # NoModification => Len(modifications) < MaxHistory
          /\ IF modification # NoModification
             THEN LET mod == [file |-> normalizedPath, method |-> modification[1],
                              modified_by |-> agentId, modified_at |-> now]
                      wfMods == Append(modifications, mod)
                  IN /\ modifications' = wfMods
                     /\ refactor_suggestions' =
                          checkRefactorSuggestion(wfMods, refactor_suggestions,
                                                  normalizedPath, modification[1])
             ELSE UNCHANGED <<modifications, refactor_suggestions>>
          /\ locks' = Remove(locks, normalizedPath)
          /\ granted' = Remove(granted, <<normalizedPath, agentId>>)
          /\ last' = [Result("releaseLock", TRUE, "released")
                        EXCEPT !.path = normalizedPath, !.agent = agentId,
                               !.methods = modification]
  /\ UNCHANGED <<tasks, agents, localAgentId, now, nextTaskId, nextAgentId>>

\* getLockStatus with the clean-up of the expired record dropped.
getLockStatus_keep(filePath) ==
  /\ LET normalizedPath == normalizePath(filePath) IN
     IF normalizedPath \notin DOMAIN locks
     THEN /\ last' = [Result("getLockStatus", FALSE, "")
                        EXCEPT !.path = normalizedPath]
          /\ UNCHANGED locks
     ELSE IF isLockExpired(locks[normalizedPath])
     THEN /\ UNCHANGED locks
          /\ last' = [Result("getLockStatus", FALSE, "expired")
                        EXCEPT !.path = normalizedPath]
     ELSE /\ last' = [Result("getLockStatus", TRUE, "locked")
                        EXCEPT !.path = normalizedPath,
                               !.info = [locked_by |-> locks[normalizedPath].locked_by,
                                         reason |-> locks[normalizedPath].reason,
                                         expires_in_ms |->
                                            locks[normalizedPath].expires_at,
                                         methods |-> locks[normalizedPath].methods]]
          /\ UNCHANGED locks
  /\ UNCHANGED <<tasks, agents, modifications, refactor_suggestions,
                 localAgentId, now, nextTaskId, nextAgentId, granted>>

getLockStatus(filePath) ==
  /\ LET normalizedPath == normalizePath(filePath) IN
     IF normalizedPath \notin DOMAIN locks
     THEN /\ last' = [Result("getLockStatus", FALSE, "")
                        EXCEPT !.path = normalizedPath]
          /\ UNCHANGED locks
     ELSE IF isLockExpired(locks[normalizedPath])
     THEN /\ locks' = Remove(locks, normalizedPath)
          /\ last' = [Result("getLockStatus", FALSE, "expired")
                        EXCEPT !.path = normalizedPath]
     ELSE /\ last' = [Result("getLockStatus", TRUE, "locked")
                        EXCEPT !.path = normalizedPath,
                               !.info = [locked_by |-> locks[normalizedPath].locked_by,
                                         reason |-> locks[normalizedPath].reason,
                                         expires_in_ms |->
                                            locks[normalizedPath].expires_at,
                                         methods |-> locks[normalizedPath].methods]]
          /\ UNCHANGED locks
  /\ UNCHANGED <<tasks, agents, modifications, refactor_suggestions,
                 localAgentId, now, nextTaskId, nextAgentId, granted>>

\* The paths of a set, one after the other.
RECURSIVE pathList(_)
pathList(ps) ==
  IF ps = {} THEN <<>>
  ELSE LET first == CHOOSE x \in ps : TRUE
       IN <<first>> \o pathList(ps \ {first})

\* getAllLocks returns the records that are not expired and saves nothing.
getAllLocks ==
  /\ LET activeLocks == {path \in DOMAIN locks : ~isLockExpired(locks[path])} IN
       last' = [Result("getAllLocks", TRUE, "")
                  EXCEPT !.ret = pathList(activeLocks),
                         !.count = Cardinality(activeLocks)]
  /\ UNCHANGED <<tasks, agents, locks, modifications, refactor_suggestions,
                 localAgentId, now, nextTaskId, nextAgentId, granted>>

forceReleaseLock(filePath) ==
  /\ LET normalizedPath == normalizePath(filePath) IN
     IF normalizedPath \in DOMAIN locks
     THEN /\ locks' = Remove(locks, normalizedPath)
          /\ granted' = [k \in {g \in DOMAIN granted : g[1] # normalizedPath}
                           |-> granted[k]]
          /\ last' = [Result("forceReleaseLock", TRUE, "")
                        EXCEPT !.path = normalizedPath]
     ELSE /\ last' = [Result("forceReleaseLock", FALSE, "")
                        EXCEPT !.path = normalizedPath]
          /\ UNCHANGED <<locks, granted>>
  /\ UNCHANGED <<tasks, agents, modifications, refactor_suggestions,
                 localAgentId, now, nextTaskId, nextAgentId>>

cleanupExpiredLocks ==
  /\ LET expired == {p \in DOMAIN locks : isLockExpired(locks[p])} IN
       /\ locks' = [p \in DOMAIN locks \ expired |-> locks[p]]
       /\ last' = [Result("cleanupExpiredLocks", TRUE, "")
                     EXCEPT !.count = Cardinality(expired)]
  /\ UNCHANGED <<tasks, agents, modifications, refactor_suggestions,
                 localAgentId, now, nextTaskId, nextAgentId, granted>>

dismissRefactorSuggestion(suggestionId) ==
  /\ IF \E i \in 1..Len(refactor_suggestions) :
           refactor_suggestions[i].id = suggestionId
     THEN LET index == CHOOSE i \in 1..Len(refactor_suggestions) :
                         /\ refactor_suggestions[i].id = suggestionId
                         /\ \A j \in 1..(i - 1) :
                              refactor_suggestions[j].id # suggestionId
          IN /\ refactor_suggestions' =
                  SubSeq(refactor_suggestions, 1, index - 1)
                  \o SubSeq(refactor_suggestions, index + 1,
                            Len(refactor_suggestions))
             /\ last' = [Result("dismissRefactorSuggestion", TRUE, "")
                           EXCEPT !.count = suggestionId]
     ELSE /\ last' = [Result("dismissRefactorSuggestion", FALSE, "")
                        EXCEPT !.count = suggestionId]
          /\ UNCHANGED refactor_suggestions
  /\ UNCHANGED <<tasks, agents, locks, modifications,
                 localAgentId, now, nextTaskId, nextAgentId, granted>>

\* --------------------------------------------------------------------- time
\* The clock advances; a grant ends at its expiry.
Tick ==
  /\ now < MaxTime
  /\ now' = now + 1
  /\ granted' = [k \in {g \in DOMAIN granted : granted[g].expires_at > now + 1}
                   |-> granted[k]]
  /\ last' = Idle
  /\ UNCHANGED <<tasks, agents, locks, modifications, refactor_suggestions,
                 localAgentId, nextTaskId, nextAgentId>>

\* ------------------------------------------------------- concurrent callers
\* Two processes that call the task coordinator on the same document.
Callers == 1..2

\* A caller that is in no call.  A caller in claimTask holds the loaded
\* workflow object (tasks, agents); a caller in waitForLock holds the
\* arguments, startTime and the time its sleep ends, and returns released,
\* timeout and modifications.
NoCall == [pc |-> "idle", op |-> "", ok |-> FALSE, task |-> NULL, agent |-> NULL,
           tasks |-> <<>>, agents |-> <<>>, missed |-> <<>>,
           path |-> "", startTime |-> 0, timeout |-> 0, checkInterval |-> 0,
           wakeAt |-> 0, released |-> FALSE, timedOut |-> FALSE,
           modifications |-> <<>>]

\* claimTask up to its save: store.load() and the changes made to the loaded
\* workflow object.  A failed call returns here; a successful one holds the
\* changed object, which nobody else sees until it is saved.
\* Of the loaded object only tasks and agents are kept here: nothing else of
\* the document changes while callers claim.
claimTaskLoad(p, taskId, agentId) ==
  /\ procs[p].pc = "idle"
  /\ IF taskId \notin DOMAIN tasks \/ ~isTaskAvailable(tasks[taskId], tasks)
     THEN procs' = [procs EXCEPT ![p] =
                      [NoCall EXCEPT !.pc = "returned", !.op = "claimTask",
                                     !.task = taskId, !.agent = agentId]]
     ELSE procs' = [procs EXCEPT ![p] =
            [NoCall EXCEPT
               !.pc = "loaded", !.op = "claimTask", !.ok = TRUE,
               !.task = taskId, !.agent = agentId,
               !.tasks = [tasks EXCEPT ![taskId].status = "in_progress",
                                       ![taskId].assigned_agent = agentId],
               !.agents = IF agentId \in DOMAIN agents
                          THEN [agents EXCEPT
                                  ![agentId].claimed_tasks =
                                     IF Includes(@, taskId) THEN @
                                     ELSE Append(@, taskId),
                                  ![agentId].last_active = now]
                          ELSE agents]]
  /\ UNCHANGED <<tasks, agents, locks, modifications, refactor_suggestions,
                 localAgentId, now, nextTaskId, nextAgentId, granted, last, history>>

\* What the other callers that hold a loaded object have not seen: the claim
\* that p saves.
noteMissed(p) ==
  [q \in Callers |->
     IF q = p THEN [procs[p] EXCEPT !.pc = "returned"]
     ELSE IF procs[q].pc = "loaded"
     THEN [procs[q] EXCEPT !.missed =
             Append(@, [task |-> procs[p].task, agent |-> procs[p].agent])]
     ELSE procs[q]]

\* A save that writes only the task and the agent the call changed into the
\* document as it is now.
claimTaskSave_merge(p) ==
  /\ procs[p].pc = "loaded"
  /\ tasks' = IF procs[p].task \in DOMAIN tasks
              THEN [tasks EXCEPT ![procs[p].task] = procs[p].tasks[procs[p].task]]
              ELSE tasks
  /\ agents' = IF procs[p].agent \in DOMAIN agents
                  /\ procs[p].agent \in DOMAIN procs[p].agents
               THEN [agents EXCEPT ![procs[p].agent] =
                                      procs[p].agents[procs[p].agent]]
               ELSE agents
  /\ procs' = noteMissed(p)
  /\ UNCHANGED <<locks, modifications, refactor_suggestions,
                 localAgentId, now, nextTaskId, nextAgentId, granted, last, history>>

\* The end of claimTask: store.save(workflow) writes the whole object the
\* caller holds over the file, and the call returns success.
claimTaskSave(p) ==
  /\ procs[p].pc = "loaded"
  /\ tasks' = procs[p].tasks
  /\ agents' = procs[p].agents
  /\ procs' = noteMissed(p)
  /\ UNCHANGED <<locks, modifications, refactor_suggestions,
                 localAgentId, now, nextTaskId, nextAgentId, granted, last, history>>

\* The caller's process has printed the result and exited.
callReturn(p) ==
  /\ procs[p].pc = "returned"
  /\ procs' = [procs EXCEPT ![p] = NoCall]
  /\ UNCHANGED <<tasks, agents, locks, modifications, refactor_suggestions,
                 localAgentId, now, nextTaskId, nextAgentId, granted, last, history>>

\* ---------------------------------------------------------------- waitForLock
\* The 60000 ms that waitForLock looks back from startTime, in clock units.
RecentWindow == 2

\* How far the clock runs while a caller waits.
MaxWaitTime == 3

\* workflow.modifications.filter(...) of waitForLock.
recentMods_anyPath(wfMods, normalizedPath, startTime) ==
  SelectSeq(wfMods, LAMBDA m : m.modified_at > startTime - RecentWindow)

recentMods(wfMods, normalizedPath, startTime) ==
  SelectSeq(wfMods, LAMBDA m : /\ m.file = normalizedPath
                               /\ m.modified_at > startTime - RecentWindow)

\* The loop of waitForLock without its bound: it polls however much time
\* has passed.
waitLoop_noTimeout(p, w) ==
  IF w.path \notin DOMAIN locks \/ isLockExpired(locks[w.path])
  THEN /\ locks' = Remove(locks, w.path)
       /\ procs' = [procs EXCEPT ![p] =
                      [w EXCEPT !.pc = "returned", !.released = TRUE,
                                !.modifications =
                                   recentMods(modifications, w.path, w.startTime)]]
  ELSE /\ UNCHANGED locks
       /\ procs' = [procs EXCEPT ![p] =
                      [w EXCEPT !.pc = "sleep",
                                !.wakeAt = now + w.checkInterval]]

\* One pass of the loop of waitForLock by caller p, whose call is w: the
\* test of the elapsed time, getLockStatus (which deletes an expired record
\* and saves), and either the return or the start of the sleep.
waitLoop(p, w) ==
  IF now - w.startTime < w.timeout
  THEN IF w.path \notin DOMAIN locks \/ isLockExpired(locks[w.path])
       THEN /\ locks' = Remove(locks, w.path)
            /\ procs' = [procs EXCEPT ![p] =
                           [w EXCEPT !.pc = "returned", !.released = TRUE,
                                     !.modifications =
                                        recentMods(modifications, w.path,
                                                   w.startTime)]]
       ELSE /\ UNCHANGED locks
            /\ procs' = [procs EXCEPT ![p] =
                           [w EXCEPT !.pc = "sleep",
                                     !.wakeAt = now + w.checkInterval]]
  ELSE /\ UNCHANGED locks
       /\ procs' = [procs EXCEPT ![p] =
                      [w EXCEPT !.pc = "returned", !.timedOut = TRUE]]

\* waitForLock is called: startTime is read and the loop is entered.  A call
\* is made only when the clock can run to the end of its last sleep.
waitForLock(p, filePath, timeout, checkInterval) ==
  /\ procs[p].pc = "idle"
  /\ now + timeout + checkInterval - 1 <= MaxWaitTime
  /\ waitLoop(p, [NoCall EXCEPT !.op = "waitForLock",
                                !.path = normalizePath(filePath),
                                !.startTime = now, !.timeout = timeout,
                                !.checkInterval = checkInterval])
  /\ UNCHANGED <<tasks, agents, modifications, refactor_suggestions,
                 localAgentId, now, nextTaskId, nextAgentId, granted, last, history>>

\* The timer of sleep(checkInterval) has fired, at its time or later, and the
\* loop goes round.
waitWake(p) ==
  /\ procs[p].pc = "sleep"
  /\ now >= procs[p].wakeAt
  /\ waitLoop(p, procs[p])
  /\ UNCHANGED <<tasks, agents, modifications, refactor_suggestions,
                 localAgentId, now, nextTaskId, nextAgentId, granted, last, history>>

\* The clock advances while a caller may be waiting; a grant ends at its
\* expiry.
Advance ==
  /\ now < MaxWaitTime
  /\ now' = now + 1
  /\ granted' = [k \in {g \in DOMAIN granted : granted[g].expires_at > now + 1}
                   |-> granted[k]]
  /\ UNCHANGED <<tasks, agents, locks, modifications, refactor_suggestions,
                 localAgentId, nextTaskId, nextAgentId, last, procs, history>>

\* ------------------------------------------------------------ specification
Init ==
  /\ tasks = <<>>
  /\ agents = <<>>
  /\ locks = <<>>
  /\ modifications = <<>>
  /\ refactor_suggestions = <<>>
  /\ localAgentId = NULL
  /\ now = 0
  /\ nextTaskId = 1
  /\ nextAgentId = 1
  /\ granted = <<>>
  /\ last = Idle
  /\ procs = [p \in Callers |-> NoCall]
  /\ history = [created |-> <<>>, completed |-> {}]

\* A command of the CLI is one process: it makes its call, prints the result
\* and exits, and the next command starts from the saved document.
Return ==
  /\ last.op # "idle"
  /\ last' = Idle
  /\ UNCHANGED <<tasks, agents, locks, modifications, refactor_suggestions,
                 localAgentId, now, nextTaskId, nextAgentId, granted, procs, history>>

\* What a caller can pass: ids that were handed out, or a string that names
\* nothing.
KnownTasks == (1..(nextTaskId - 1)) \cup {UnknownTask}
KnownAgents == (1..(nextAgentId - 1)) \cup {UnknownAgent}
\* DepLists with the id the next addTask call will generate among the ids a
\* caller can pass.
DepLists_own == {<<>>} \cup {<<d>> : d \in KnownTasks \cup {nextTaskId}}

DepLists == {<<>>} \cup {<<d>> : d \in KnownTasks}
            \cup {<<d, e>> : d, e \in 1..(nextTaskId - 1)}

\* The task coordinator, called by one registered agent and by callers that
\* pass an id of their own; updateTaskStatus puts a task back to pending.
Next ==
  \/ Return
  \/ /\ last.op = "idle"
     /\ UNCHANGED <<procs, history>>
     /\ \/ \E deps \in DepLists : addTask(deps)
        \/ \E t \in KnownTasks, a \in KnownAgents : claimTask(t, a)
        \/ \E t \in KnownTasks, s \in Summaries : completeTask(t, s)
        \/ \E t \in KnownTasks : updateTaskStatus(t, "pending")
        \/ \E t \in KnownTasks : deleteTask(t)
        \/ getOrCreateCurrentAgent

Spec == Init /\ [][Next]_vars

\* The agent registry with takeover: tasks without dependencies, whole-file
\* leases on one path, the clock standing still.
NextTakeover ==
  \/ Return
  \/ /\ last.op = "idle"
     /\ UNCHANGED <<procs, history>>
     /\ \/ (nextTaskId <= MaxTakeoverTasks /\ addTask(<<>>))
        \/ \E t \in KnownTasks, a \in KnownAgents : claimTask(t, a)
        \/ \E t \in KnownTasks : completeTask(t, "done")
        \/ \E t \in KnownTasks : updateTaskStatus(t, "pending")
        \/ \E t \in KnownTasks : deleteTask(t)
        \/ getOrCreateCurrentAgent
        \/ deactivateAgent
        \/ listAgents(FALSE)
        \/ \E a \in KnownAgents : takeoverAgent(a)
        \/ \E a \in KnownAgents : acquireLock("f.ts", a, <<>>, "r1", NULL)
        \/ \E a \in KnownAgents : releaseLock("f.ts", a, NoModification)
        \/ forceReleaseLock("f.ts")

SpecTakeover == Init /\ [][NextTakeover]_vars

\* The lock coordinator with the clock.  It never consults the agents
\* collection: its callers pass ids of their own.  Method-level leases are
\* taken on d/g.ts, under both spellings of the path; f.ts is leased whole.
NextLock ==
  \/ Return
  \/ /\ last.op = "idle"
     /\ UNCHANGED <<procs, history>>
     /\ \/ \E p \in RawPaths \ {"f.ts"}, a \in LockAgents,
              m \in {<<>>} \cup {<<l>> : l \in MethodLists},
              r \in Reasons, t \in {NULL, 1} : acquireLock(p, a, m, r, t)
        \/ \E a \in LockAgents : acquireLock("f.ts", a, <<>>, "r1", NULL)
        \/ \E p \in RawPaths, a \in LockAgents : releaseLock(p, a, NoModification)
        \/ \E p \in RawPaths : getLockStatus(p)
        \/ getAllLocks
        \/ \E p \in RawPaths : forceReleaseLock(p)
        \/ cleanupExpiredLocks
        \/ Tick

SpecLock == Init /\ [][NextLock]_vars

\* ===================================================================== claims
\* The lock coordinator with the modification history: whole-file leases,
\* released with or without a modification record.  On f.ts both agents take
\* the lease and the record names a method or none; on d/g.ts, spelled with a
\* backslash, one agent takes the lease and the record names a method.
Modifications == {NoModification, <<NoMethod>>, <<"foo">>}

NextRelease ==
  \/ Return
  \/ /\ last.op = "idle"
     /\ UNCHANGED <<procs, history>>
     /\ \/ \E a \in LockAgents : acquireLock("f.ts", a, <<>>, "r1", NULL)
        \/ acquireLock("d\\g.ts", 1, <<>>, "r1", NULL)
        \/ \E a \in LockAgents, m \in Modifications :
             /\ m # NoModification => Len(modifications) < MaxMods
             /\ releaseLock("f.ts", a, m)
        \/ \E a \in LockAgents, m \in {NoModification, <<"foo">>} :
             /\ m # NoModification => Len(modifications) < MaxMods
             /\ releaseLock("d\\g.ts", a, m)
        \/ \E id \in 0..MaxTime : dismissRefactorSuggestion(id)
        \/ Tick

SpecRelease == Init /\ [][NextRelease]_vars

\* The agent registry with the clock: one store, whose local identity is
\* resolved, deactivated and minted again, with tasks and a lease to hand
\* over.
NextAgents ==
  \/ Return
  \/ /\ last.op = "idle"
     /\ UNCHANGED <<procs, history>>
     /\ \/ (nextTaskId <= MaxTakeoverTasks /\ addTask(<<>>))
        \/ \E t \in KnownTasks, a \in 1..(nextAgentId - 1) : claimTask(t, a)
        \/ \E t \in KnownTasks : completeTask(t, "done")
        \/ getOrCreateCurrentAgent
        \/ renameAgent
        \/ touchAgent
        \/ deactivateAgent
        \/ \E b \in BOOLEAN : listAgents(b)
        \/ \E d \in 0..1 : cleanupTerminatedAgents(d)
        \/ \E a \in KnownAgents : takeoverAgent(a)
        \/ \E a \in 1..(nextAgentId - 1) : acquireLock("f.ts", a, <<>>, "r1", NULL)
        \/ \E a \in 1..(nextAgentId - 1) : releaseLock("f.ts", a, NoModification)
        \/ Tick

SpecAgents == Init /\ [][NextAgents]_vars

\* Two callers, each claiming for an agent id of its own, whose claimTask
\* calls interleave between load and save, on a document that other commands
\* (each one load and save with nothing in between) add tasks to, complete
\* tasks in and register agents in.
NextRace ==
  \/ Return
  \/ /\ last.op = "idle"
     /\ UNCHANGED <<procs, history>>
     /\ \/ /\ nextTaskId <= MaxTakeoverTasks
           /\ \E deps \in {<<>>} \cup {<<d>> : d \in 1..(nextTaskId - 1)} :
                addTask(deps)
        \/ \E t \in 1..(nextTaskId - 1) : completeTask(t, "done")
        \/ getOrCreateCurrentAgent
  \/ \E p \in Callers, t \in KnownTasks : claimTaskLoad(p, t, p)
  \/ \E p \in Callers : claimTaskSave(p)
  \/ \E p \in Callers : callReturn(p)

SpecRace == Init /\ [][NextRace]_vars

\* The refactor heuristic over a history long enough for twice the
\* threshold: one agent takes and releases the lease on f.ts, the record
\* naming foo or no method, suggestions are dismissed, and the clock runs.
NextRefactor ==
  \/ Return
  \/ /\ last.op = "idle"
     /\ UNCHANGED <<procs, history>>
     /\ \/ acquireLock("f.ts", 1, <<>>, "r1", NULL)
        \/ \E m \in {<<NoMethod>>, <<"foo">>} : releaseLock("f.ts", 1, m)
        \/ \E id \in 0..MaxTime : dismissRefactorSuggestion(id)
        \/ Tick

SpecRefactor == Init /\ [][NextRefactor]_vars

\* A caller waits for f.ts while other commands take, extend, release and
\* force-release its lease, record modifications of it and of d/g.ts, and
\* the clock runs.
Timeouts == 1..2

NextWait ==
  \/ Return
  \/ /\ last.op = "idle"
     /\ UNCHANGED <<procs, history>>
     /\ \/ acquireLock("f.ts", 1, <<>>, "r1", NULL)
        \/ acquireLock("d/g.ts", 1, <<>>, "r1", NULL)
        \/ (Len(modifications) < MaxMods /\ releaseLock("f.ts", 1, <<"foo">>))
        \/ (Len(modifications) < MaxMods /\ releaseLock("d/g.ts", 1, <<"foo">>))
        \/ forceReleaseLock("f.ts")
  \/ \E t \in Timeouts : waitForLock(1, "f.ts", t, 1)
  \/ waitWake(1)
  \/ callReturn(1)
  \/ Advance

SpecWait == Init /\ [][NextWait]_vars

\* The waiting caller's process runs when its timer has fired, and time
\* passes.
SpecWaitFair ==
  /\ SpecWait
  /\ WF_vars(waitWake(1))
  /\ WF_vars(Advance)

Assignee(t) == tasks[t].assigned_agent

\* C1 - claim exclusivity.  A successful claimTask(T, A) gives T the assignee
\* A; from then on, whatever calls come in between (completeTask,
\* takeoverAgent, updateTaskStatus, lock calls, listAgents), T has an assignee
\* for as long as it exists, and every claimTask on a task that has one - by
\* A' # A in particular - fails and changes no task and no agent.
C1_ClaimExclusive ==
  [][/\ \A t \in DOMAIN tasks \cap DOMAIN tasks' :
          tasks[t].assigned_agent # NULL => tasks'[t].assigned_agent # NULL
     /\ (last'.op = "claimTask" /\ last'.ok)
          => /\ last'.agent # NULL
             /\ tasks'[last'.task].assigned_agent = last'.agent
     /\ (/\ last'.op = "claimTask"
         /\ last'.task \in DOMAIN tasks
         /\ tasks[last'.task].assigned_agent # NULL)
          => /\ ~last'.ok
             /\ tasks' = tasks
             /\ agents' = agents]_vars

\* A claim by another caller fails on a task that was claimed, then inherited
\* in a takeover.
C1_Witness ==
  /\ last.op = "claimTask"
  /\ ~last.ok
  /\ last.task \in DOMAIN tasks
  /\ Assignee(last.task) \notin {NULL, last.agent}
  /\ \E a \in DOMAIN agents : agents[a].status = "terminated"

\* C3 - after a successful takeoverAgent(target) by the current agent C, the
\* saved document has C among its agents, every inherited task has assignee
\* C, and C's claimed_tasks holds every inherited task id.
C3_TakeoverTransfersClaims ==
  (last.op = "takeoverAgent" /\ last.ok)
    => /\ last.named \in DOMAIN agents
       /\ \A i \in 1..Len(last.ret) :
            /\ last.ret[i] \in DOMAIN tasks
                 => Assignee(last.ret[i]) = last.named
            /\ last.named \in DOMAIN agents
                 => Includes(agents[last.named].claimed_tasks, last.ret[i])

\* C4 - a successful takeoverAgent(target) by C saves a document in which
\* every lease the target owned has owner C and is otherwise as it was, every
\* other lease is as it was, and the target is terminated with no claims.
C4_TakeoverTransfersLeases ==
  [][(last'.op = "takeoverAgent" /\ last'.ok)
       => /\ DOMAIN locks' = DOMAIN locks
          /\ \A p \in DOMAIN locks :
               IF locks[p].locked_by = last'.agent
               THEN /\ locks'[p].locked_by = last'.named
                    /\ locks'[p].methods = locks[p].methods
                    /\ locks'[p].expires_at = locks[p].expires_at
                    /\ locks'[p].reason = locks[p].reason
               ELSE locks'[p] = locks[p]
          /\ agents'[last'.agent].status = "terminated"
          /\ agents'[last'.agent].claimed_tasks = <<>>]_vars

\* The agent minted inside the takeover owns a lease: it was the target's.
C4_Witness ==
  /\ last.op = "takeoverAgent"
  /\ last.ok
  /\ last.msg = "minted"
  /\ \E p \in DOMAIN locks : locks[p].locked_by = last.named
  /\ agents[last.agent].status = "terminated"

\* C5 - in every document, isTaskAvailable(T) is true exactly when T is
\* pending, has no assigned agent, and every id of T.dependencies names an
\* existing task that is completed; an id that names no task is unmet.
C5_AvailableIff ==
  \A t \in DOMAIN tasks :
    isTaskAvailable(tasks[t], tasks)
      <=> /\ tasks[t].status = "pending"
          /\ tasks[t].assigned_agent = NULL
          /\ \A d \in Range(tasks[t].dependencies) :
               d \in DOMAIN tasks /\ tasks[d].status = "completed"

\* A pending, unassigned task is unavailable only because a dependency names
\* no task, beside a task that is available with a completed dependency.
C5_Witness ==
  \E t, u \in DOMAIN tasks :
    /\ tasks[t].status = "pending" /\ tasks[t].assigned_agent = NULL
    /\ \E d \in Range(tasks[t].dependencies) : d \notin DOMAIN tasks
    /\ \A d \in Range(tasks[t].dependencies) :
         d \in DOMAIN tasks => tasks[d].status = "completed"
    /\ ~isTaskAvailable(tasks[t], tasks)
    /\ tasks[u].dependencies # <<>>
    /\ isTaskAvailable(tasks[u], tasks)

\* The tasks that name t among their dependencies.
DependentsOf(wfTasks, t) ==
  {x \in DOMAIN wfTasks : Includes(wfTasks[x].dependencies, t)}

NoDuplicates(s) == \A i, j \in 1..Len(s) : s[i] = s[j] => i = j

\* C6 - a successful completeTask(T) returns, each once, exactly the
\* dependents of T that are available in the saved document, and each of them
\* was unavailable before the call.  So a dependent with another dependency
\* still not completed is not returned, and it is returned by the completion
\* of its last dependency.
C6_UnblockedExact ==
  [][(last'.op = "completeTask" /\ last'.ok)
       => /\ NoDuplicates(last'.ret)
          /\ Range(last'.ret) =
               {x \in DependentsOf(tasks', last'.task) :
                  /\ tasks'[x].status = "pending"
                  /\ tasks'[x].assigned_agent = NULL
                  /\ \A d \in Range(tasks'[x].dependencies) :
                       d \in DOMAIN tasks' /\ tasks'[d].status = "completed"}
          /\ \A x \in Range(last'.ret) :
               /\ x \in DOMAIN tasks
               /\ ~isTaskAvailable(tasks[x], tasks)]_vars

\* The completion of the second of two dependencies reports the dependent.
C6_Witness ==
  /\ last.op = "completeTask"
  /\ last.ok
  /\ \E i \in 1..Len(last.ret) :
       LET deps == tasks[last.ret[i]].dependencies
       IN /\ Len(deps) = 2
          /\ deps[1] # deps[2]
          /\ deps[2] = last.task

\* C7 - completeTask on an absent task fails as not found; on a completed
\* task it fails as already completed and changes nothing; a successful call
\* leaves the task completed, so the next call on it fails; and no
\* completeTask call changes the status or the result of a completed task.
C7_CompletionMonotone ==
  [][last'.op = "completeTask"
       => /\ last'.task \notin DOMAIN tasks
               => (~last'.ok /\ last'.msg = "not found" /\ doc' = doc)
          /\ (last'.task \in DOMAIN tasks
               /\ tasks[last'.task].status = "completed")
               => (~last'.ok /\ last'.msg = "already completed" /\ doc' = doc)
          /\ last'.ok
               => (/\ last'.task \in DOMAIN tasks'
                   /\ tasks'[last'.task].status = "completed")
          /\ \A t \in DOMAIN tasks :
               tasks[t].status = "completed"
                 => /\ t \in DOMAIN tasks'
                    /\ tasks'[t].status = "completed"
                    /\ tasks'[t].result = tasks[t].result]_vars

\* A second completeTask, with another summary, fails on a completed task.
C7_Witness ==
  /\ last.op = "completeTask"
  /\ ~last.ok
  /\ last.msg = "already completed"
  /\ tasks[last.task].result = "done"

Occurrences(s, x) == Cardinality({i \in 1..Len(s) : s[i] = x})

\* C8 as stated - after a successful claimTask(T, A), for any id A: T is
\* in_progress with assignee A, and A's claimed_tasks holds T exactly once.
C8_ClaimRecordedForAnyId ==
  (last.op = "claimTask" /\ last.ok)
    => /\ tasks[last.task].status = "in_progress"
       /\ tasks[last.task].assigned_agent = last.agent
       /\ last.agent \in DOMAIN agents
       /\ Occurrences(agents[last.agent].claimed_tasks, last.task) = 1

\* C8 as amended - after a successful claimTask(T, A): T is in_progress with
\* assignee A; if A names an agent of the document, A's claimed_tasks holds T
\* exactly once; if A names none, no agent's claimed_tasks holds T.
C8_ClaimRecordedForAgents ==
  (last.op = "claimTask" /\ last.ok)
    => /\ tasks[last.task].status = "in_progress"
       /\ tasks[last.task].assigned_agent = last.agent
       /\ last.agent \in DOMAIN agents
            => Occurrences(agents[last.agent].claimed_tasks, last.task) = 1
       /\ last.agent \notin DOMAIN agents
            => \A a \in DOMAIN agents :
                 ~Includes(agents[a].claimed_tasks, last.task)

\* The registered agent claims a second task.
C8_Witness ==
  /\ last.op = "claimTask"
  /\ last.ok
  /\ last.agent \in DOMAIN agents
  /\ Len(agents[last.agent].claimed_tasks) = 2

\* C9 - claimTask fails, changing nothing in the document, in exactly four
\* cases, told apart in this order: the task is absent; its status is not
\* pending (the status is named); it is pending with an assignee (the
\* assignee is named); it is pending and unassigned with a dependency that is
\* missing or not completed.  In every other case it succeeds.
C9_ClaimFailures ==
  [][last'.op = "claimTask"
       => LET t == last'.task IN
          IF t \notin DOMAIN tasks
          THEN ~last'.ok /\ last'.msg = "not found" /\ doc' = doc
          ELSE IF tasks[t].status # "pending"
          THEN /\ ~last'.ok /\ last'.msg = "already status"
               /\ last'.status = tasks[t].status /\ doc' = doc
          ELSE IF tasks[t].assigned_agent # NULL
          THEN /\ ~last'.ok /\ last'.msg = "already assigned"
               /\ last'.named = tasks[t].assigned_agent /\ doc' = doc
          ELSE IF \E d \in Range(tasks[t].dependencies) :
                    d \notin DOMAIN tasks \/ tasks[d].status # "completed"
          THEN /\ ~last'.ok /\ last'.msg = "dependencies not completed"
               /\ doc' = doc
          ELSE last'.ok]_vars

\* Each of the four failures happens; the third needs a task put back to
\* pending after it was claimed.
C9_Witness ==
  /\ last.op = "claimTask"
  /\ ~last.ok
  /\ last.msg = "already assigned"
  /\ last.named # last.agent
  /\ \E t \in DOMAIN tasks :
       /\ tasks[t].status = "pending" /\ tasks[t].assigned_agent = NULL
       /\ \E d \in Range(tasks[t].dependencies) :
            d \in DOMAIN tasks /\ tasks[d].status # "completed"

\* The methods a lock request can name.
Methods == {"foo", "bar"}

\* The caller agentId was granted method m of filePath and the grant stands.
Holds(filePath, agentId, m) ==
  LET k == <<filePath, agentId>>
  IN /\ k \in DOMAIN granted
     /\ granted[k].expires_at > now
     /\ (m \in granted[k].methods \/ "*" \in granted[k].methods)

\* C2 - lease exclusivity: an agent holds method m of a path from a
\* successful acquireLock naming m or the wildcard until its successful
\* releaseLock, a force release, or the expiry of its latest successful
\* acquire; no two different agents hold the same method of the same path at
\* the same time.
C2_LeaseExclusive ==
  \A k1, k2 \in DOMAIN granted :
    (k1[1] = k2[1] /\ k1[2] # k2[2])
      => \A m \in Methods : ~(Holds(k1[1], k1[2], m) /\ Holds(k2[1], k2[2], m))

\* The methods a request names: the wildcard when the option is omitted.
Requested(optMethods) ==
  IF optMethods = <<>> THEN {"*"} ELSE Range(optMethods[1])

RequestedList(optMethods) ==
  IF optMethods = <<>> THEN <<"*">> ELSE optMethods[1]

\* C11 - acquireLock(p, A, opts) succeeds whenever p has no record or a record
\* with expires_at <= now, whoever owned it: afterwards the one record of p
\* has owner A, exactly the requested methods and expiry now + duration, and
\* the records of the other paths are unchanged.
C11_AcquireFreeOrExpired ==
  [][last'.op = "acquireLock"
       => LET p == last'.path IN
          (p \notin DOMAIN locks \/ locks[p].expires_at <= now)
            => /\ last'.ok
               /\ last'.msg = "acquired"
               /\ DOMAIN locks' = DOMAIN locks \cup {p}
               /\ locks'[p].locked_by = last'.agent
               /\ locks'[p].methods = RequestedList(last'.methods)
               /\ locks'[p].expires_at = now + last'.count
               /\ last'.count > 0
               /\ \A q \in DOMAIN locks \ {p} : locks'[q] = locks[q]]_vars

\* A request for one method is granted over the expired whole-file lease of
\* another agent, at the instant of its expiry.
C11_Witness ==
  /\ last.op = "acquireLock"
  /\ last.ok
  /\ last.found.locked_by \notin {NULL, last.agent}
  /\ last.found.expires_at = now
  /\ last.found.methods = <<"*">>
  /\ locks[last.path].methods = <<"foo">>

\* C12 - when agent A re-acquires a path on which it holds an unexpired
\* lease, the call succeeds as extended, the owner stays A, and the methods
\* become the union of the held and the requested ones, each once; a request
\* that names only held methods leaves the methods unchanged.
C12_ExtensionUnion ==
  [][last'.op = "acquireLock"
       => LET p == last'.path IN
          (/\ p \in DOMAIN locks
           /\ locks[p].expires_at > now
           /\ locks[p].locked_by = last'.agent)
            => /\ last'.ok
               /\ last'.msg = "extended"
               /\ locks'[p].locked_by = last'.agent
               /\ Range(locks'[p].methods)
                    = Range(locks[p].methods) \cup Requested(last'.methods)
               /\ NoDuplicates(locks'[p].methods)
               /\ Requested(last'.methods) \subseteq Range(locks[p].methods)
                    => locks'[p].methods = locks[p].methods]_vars

\* A lease on bar, extended with foo, is re-acquired with both.
C12_Witness ==
  /\ last.op = "acquireLock"
  /\ last.msg = "extended"
  /\ last.methods = << <<"foo", "bar">> >>
  /\ last.found.methods = <<"bar", "foo">>
  /\ locks[last.path].methods = <<"bar", "foo">>

Max(a, b) == IF a > b THEN a ELSE b

\* C13 as stated - after a same-owner re-acquisition of an unexpired lease
\* the expiry is the later of the old expiry and now + duration: an extension
\* never shortens a lease.
C13_ExtensionKeepsLaterExpiry ==
  [][(last'.op = "acquireLock" /\ last'.msg = "extended")
       => locks'[last'.path].expires_at
            = Max(locks[last'.path].expires_at, now + last'.count)]_vars

\* C13 as amended - after a same-owner re-acquisition of an unexpired lease
\* the expiry is now + duration of the later request, whatever the expiry
\* was: it is the later of the two when the new duration is at least the
\* time the lease had left, and earlier otherwise.
C13_ExtensionSetsExpiry ==
  [][(last'.op = "acquireLock" /\ last'.msg = "extended")
       => LET p == last'.path IN
          /\ locks'[p].expires_at = now + last'.count
          /\ last'.count >= locks[p].expires_at - now
               => locks'[p].expires_at
                    = Max(locks[p].expires_at, now + last'.count)
          /\ last'.count < locks[p].expires_at - now
               => locks'[p].expires_at < locks[p].expires_at]_vars

\* An extension with a shorter duration moved the expiry back.
C13_Witness ==
  /\ last.op = "acquireLock"
  /\ last.msg = "extended"
  /\ locks[last.path].expires_at < last.found.expires_at

\* C14 - when agent B acquires a path whose unexpired lease belongs to
\* another agent A and the method sets do not conflict, the call succeeds and
\* the one record of the path becomes B's lease with exactly B's methods; A's
\* methods are recorded nowhere, and releaseLock(p, A) then fails as not
\* owner, changing nothing.
C14_NonConflictOverwrite ==
  [][/\ last'.op = "acquireLock"
       => LET p == last'.path IN
          (/\ p \in DOMAIN locks
           /\ locks[p].expires_at > now
           /\ locks[p].locked_by # last'.agent
           /\ "*" \notin Requested(last'.methods) \cup Range(locks[p].methods)
           /\ Requested(last'.methods) \cap Range(locks[p].methods) = {})
            => /\ last'.ok
               /\ last'.msg = "acquired"
               /\ DOMAIN locks' = DOMAIN locks
               /\ locks'[p].locked_by = last'.agent
               /\ locks'[p].methods = RequestedList(last'.methods)
               /\ \A q \in DOMAIN locks \ {p} : locks'[q] = locks[q]
     /\ last'.op = "releaseLock"
       => LET p == last'.path IN
          (p \in DOMAIN locks /\ locks[p].locked_by # last'.agent)
            => /\ ~last'.ok
               /\ last'.msg = "not owner"
               /\ last'.named = locks[p].locked_by
               /\ doc' = doc]_vars

\* The agent that was granted foo, and whose grant still stands, is refused
\* the release: the record of the path is another agent's lease on bar.
C14_Witness ==
  /\ last.op = "releaseLock"
  /\ ~last.ok
  /\ last.msg = "not owner"
  /\ Holds(last.path, last.agent, "foo")
  /\ locks[last.path].methods = <<"bar">>
  /\ locks[last.path].expires_at > now

\* C16 - an expired lease is equivalent to an absent one: getLockStatus and
\* getAllLocks report its path as not locked and purge the record from the
\* saved document, and acquireLock and releaseLock on the path, by the owner
\* or by another agent, return what they return when the path has no record.
C16_ExpiredIsAbsent ==
  [][LET p == last'.path
         expired == p \in DOMAIN locks /\ locks[p].expires_at <= now
     IN /\ (last'.op = "getLockStatus" /\ expired)
             => (~last'.ok /\ p \notin DOMAIN locks')
        /\ last'.op = "getAllLocks"
             => \A q \in DOMAIN locks :
                  locks[q].expires_at <= now
                    => (q \notin Range(last'.ret) /\ q \notin DOMAIN locks')
        /\ (last'.op = "acquireLock" /\ expired)
             => (last'.ok /\ last'.msg = "acquired")
        /\ (last'.op = "releaseLock" /\ expired)
             => (~last'.ok /\ last'.msg = "no lock" /\ doc' = doc)]_vars

\* C15 - releaseLock(p, A, mod) fails as not found when p has no record and
\* as not owner when the record's owner is not A, and then locks,
\* modifications and refactor suggestions are unchanged.  When the owner is A
\* it succeeds, removes the record of p and leaves the other records as they
\* are; it appends one modification, with the normalized path as file and A
\* as author, exactly when a modification was supplied.
C15_ReleaseCases ==
  [][last'.op = "releaseLock"
       => LET p == last'.path
              n == Len(modifications)
          IN IF p \notin DOMAIN locks
             THEN /\ ~last'.ok /\ last'.msg = "no lock"
                  /\ locks' = locks /\ modifications' = modifications
                  /\ refactor_suggestions' = refactor_suggestions
             ELSE IF locks[p].locked_by # last'.agent
             THEN /\ ~last'.ok /\ last'.msg = "not owner"
                  /\ locks' = locks /\ modifications' = modifications
                  /\ refactor_suggestions' = refactor_suggestions
             ELSE /\ last'.ok
                  /\ DOMAIN locks' = DOMAIN locks \ {p}
                  /\ \A q \in DOMAIN locks' : locks'[q] = locks[q]
                  /\ IF last'.methods = NoModification
                     THEN modifications' = modifications
                     ELSE /\ Len(modifications') = n + 1
                          /\ SubSeq(modifications', 1, n) = modifications
                          /\ modifications'[n + 1].file = p
                          /\ normalizePath(p) = p
                          /\ p # "d\\g.ts"
                          /\ modifications'[n + 1].modified_by = last'.agent]_vars

\* The owner releases the path it named with a backslash, with a
\* modification, while the other path stays leased to the other agent.
C15_Witness ==
  /\ last.op = "releaseLock"
  /\ last.ok
  /\ last.path = "d/g.ts"
  /\ last.methods = <<"foo">>
  /\ modifications # <<>>
  /\ modifications[Len(modifications)].file = "d/g.ts"
  /\ "f.ts" \in DOMAIN locks
  /\ locks["f.ts"].locked_by # last.agent

\* The modifications of the pair (filePath, method), no method being a
\* method of its own, in the 24 hours before now.
PairCount(wfMods, filePath, method) ==
  Cardinality({i \in 1..Len(wfMods) :
                 /\ wfMods[i].file = filePath
                 /\ wfMods[i].method = method
                 /\ wfMods[i].modified_at > now - OneDay})

PairSuggested(wfSuggestions, filePath, method) ==
  \E i \in 1..Len(wfSuggestions) :
    wfSuggestions[i].file = filePath /\ wfSuggestions[i].method = method

\* C17 - refactor suggestions fire once per (path, method) pair, the method
\* possibly absent: the list never holds two suggestions of one pair; a
\* release with a modification creates the pair's suggestion exactly when the
\* pair's count over the last 24 hours, the new modification included, has
\* reached the threshold and the pair has no suggestion; the suggestion is
\* medium below twice the threshold.
C17_SuggestionOncePerPair ==
  [][/\ \A i, j \in 1..Len(refactor_suggestions') :
          (/\ refactor_suggestions'[i].file = refactor_suggestions'[j].file
           /\ refactor_suggestions'[i].method = refactor_suggestions'[j].method)
            => i = j
     /\ (last'.op = "releaseLock" /\ last'.ok /\ last'.methods # NoModification)
          => LET p == last'.path
                 method == last'.methods[1]
                 count == PairCount(modifications', p, method)
                 n == Len(refactor_suggestions)
             IN IF count >= auto_refactor_threshold
                   /\ ~PairSuggested(refactor_suggestions, p, method)
                THEN /\ Len(refactor_suggestions') = n + 1
                     /\ SubSeq(refactor_suggestions', 1, n) = refactor_suggestions
                     /\ refactor_suggestions'[n + 1].file = p
                     /\ refactor_suggestions'[n + 1].method = method
                     /\ count < 2 * auto_refactor_threshold
                          => refactor_suggestions'[n + 1].priority = "medium"
                ELSE refactor_suggestions' = refactor_suggestions]_vars

\* The modifications that a release naming method counts: those of the
\* method, or all those of the path when it names none.
KeyCount(wfMods, filePath, method) ==
  Cardinality({i \in 1..Len(wfMods) :
                 /\ wfMods[i].file = filePath
                 /\ (method = NoMethod \/ wfMods[i].method = method)
                 /\ wfMods[i].modified_at > now - OneDay})

KeySuggested(wfSuggestions, filePath, method) ==
  \E i \in 1..Len(wfSuggestions) :
    /\ wfSuggestions[i].file = filePath
    /\ (method = NoMethod \/ wfSuggestions[i].method = method)

\* C17 as amended - the list never holds two suggestions of one (path,
\* method) pair.  A release with a modification naming a method creates the
\* pair's suggestion exactly when the pair's count over the last 24 hours has
\* reached the threshold and the pair has no suggestion.  A release with a
\* modification naming no method counts every modification of the path and
\* creates the suggestion of the path without method exactly when that count
\* has reached the threshold and the path has no suggestion of any method.
\* The suggestion is medium below twice the threshold.
C17_SuggestionOncePerKey ==
  [][/\ \A i, j \in 1..Len(refactor_suggestions') :
          (/\ refactor_suggestions'[i].file = refactor_suggestions'[j].file
           /\ refactor_suggestions'[i].method = refactor_suggestions'[j].method)
            => i = j
     /\ (last'.op = "releaseLock" /\ last'.ok /\ last'.methods # NoModification)
          => LET p == last'.path
                 method == last'.methods[1]
                 count == KeyCount(modifications', p, method)
                 n == Len(refactor_suggestions)
             IN IF count >= auto_refactor_threshold
                   /\ ~KeySuggested(refactor_suggestions, p, method)
                THEN /\ Len(refactor_suggestions') = n + 1
                     /\ SubSeq(refactor_suggestions', 1, n) = refactor_suggestions
                     /\ refactor_suggestions'[n + 1].file = p
                     /\ refactor_suggestions'[n + 1].method = method
                     /\ count < 2 * auto_refactor_threshold
                          => refactor_suggestions'[n + 1].priority = "medium"
                ELSE refactor_suggestions' = refactor_suggestions]_vars

\* Four releases of f.ts with a modification of foo: the third created the
\* one medium suggestion, the fourth none.
C17_Witness ==
  /\ last.op = "releaseLock"
  /\ last.ok
  /\ last.methods = <<"foo">>
  /\ Len(modifications) = 4
  /\ \A i \in 1..4 : modifications[i].file = "f.ts"
                      /\ modifications[i].method = "foo"
                      /\ modifications[i].modified_at > now - OneDay
  /\ Len(refactor_suggestions) = 1
  /\ refactor_suggestions[1].method = "foo"
  /\ refactor_suggestions[1].count = 3
  /\ refactor_suggestions[1].priority = "medium"

\* C18 - takeoverAgent(target) fails and transfers nothing when the target
\* is not in the agents collection, when it is terminated, and when it is the
\* caller's resolved identity: no task, no lock and no claim set changes, no
\* agent is added and none becomes terminated.  In the first two cases
\* nothing at all is saved.
C18_TakeoverFailures ==
  [][last'.op = "takeoverAgent"
       => LET target == last'.agent
              absent == target \notin DOMAIN agents
              terminated == ~absent /\ agents[target].status = "terminated"
              self == /\ ~absent /\ ~terminated
                      /\ localAgentId # NULL /\ localAgentId = target
          IN /\ ~last'.ok <=> (absent \/ terminated \/ self)
             /\ absent => (last'.msg = "not found" /\ doc' = doc)
             /\ terminated => (last'.msg = "already terminated" /\ doc' = doc)
             /\ self => last'.msg = "yourself"
             /\ ~last'.ok
                  => /\ tasks' = tasks
                     /\ locks' = locks
                     /\ DOMAIN agents' = DOMAIN agents
                     /\ \A a \in DOMAIN agents :
                          /\ agents'[a].claimed_tasks = agents[a].claimed_tasks
                          /\ agents'[a].status = "terminated"
                               => agents[a].status = "terminated"]_vars

\* The caller names itself while it holds a task and a lease.
C18_Witness ==
  /\ last.op = "takeoverAgent"
  /\ ~last.ok
  /\ last.msg = "yourself"
  /\ agents[last.agent].claimed_tasks # <<>>
  /\ agents[last.agent].status = "active"
  /\ \E p \in DOMAIN locks : locks[p].locked_by = last.agent

\* C19 - an agent's status changes to terminated only in a successful
\* takeoverAgent whose target is that agent; no other operation terminates
\* an agent, and a new agent is not terminated.
C19_OnlyTakeoverTerminates ==
  [][\A a \in DOMAIN agents' :
       (/\ agents'[a].status = "terminated"
        /\ a \in DOMAIN agents => agents[a].status # "terminated")
         => /\ a \in DOMAIN agents
            /\ last'.op = "takeoverAgent"
            /\ last'.ok
            /\ last'.agent = a]_vars

\* An agent that listAgents had marked inactive is taken over by an agent
\* that holds a task of its own.
C19_Witness ==
  /\ last.op = "takeoverAgent"
  /\ last.ok
  /\ last.msg = "resolved"
  /\ agents[last.agent].status = "terminated"
  /\ now - agents[last.agent].last_active > inactive_timeout
  /\ agents[last.named].claimed_tasks # <<>>

\* C20 - getOrCreateCurrentAgent returns the agent the local identity names
\* when the document has it, active and with last_active refreshed, and adds
\* no agent; otherwise it adds exactly one agent, active and with no claimed
\* task, and stores its id as the local identity.  Either way the local
\* identity then names the returned agent in the document, so the next call
\* returns the same id and adds nothing.
C20_GetOrCreateIdempotent ==
  [][last'.op = "getOrCreateCurrentAgent"
       => LET id == last'.agent IN
          /\ localAgentId' = id
          /\ id \in DOMAIN agents'
          /\ agents'[id].status = "active"
          /\ agents'[id].last_active = now
          /\ \A a \in DOMAIN agents \ {id} : agents'[a] = agents[a]
          /\ IF localAgentId # NULL /\ localAgentId \in DOMAIN agents
             THEN /\ id = localAgentId
                  /\ DOMAIN agents' = DOMAIN agents
                  /\ agents'[id].claimed_tasks = agents[id].claimed_tasks
             ELSE /\ id \notin DOMAIN agents
                  /\ DOMAIN agents' = DOMAIN agents \cup {id}
                  /\ agents'[id].claimed_tasks = <<>>]_vars

\* The local identity, marked inactive by listAgents, is resolved again: it
\* is active, refreshed, and keeps its task.
C20_Witness ==
  /\ last.op = "getOrCreateCurrentAgent"
  /\ last.msg = "resolved"
  /\ now > inactive_timeout
  /\ agents[last.agent].last_active = now
  /\ agents[last.agent].claimed_tasks # <<>>
  /\ Cardinality(DOMAIN agents) = 2

\* ---------------------------------------------------------------------------
\* C21: deleteTask(T) on an existing task removes T and leaves T's id in no
\* remaining task's dependencies, in no remaining task's dependents and in no
\* agent's claimed set; every dependent of T still exists and no other task's
\* status or assignee changes.  deleteTask on an absent id returns false and
\* changes nothing.
C21_DeleteRepairs ==
  [][last'.op = "deleteTask" =>
       LET T == last'.task IN
       IF T \in DOMAIN tasks
       THEN /\ last'.ok
            /\ T \notin DOMAIN tasks'
            /\ DOMAIN tasks' = DOMAIN tasks \ {T}
            /\ \A d \in Range(tasks[T].dependents) : d \in DOMAIN tasks'
            /\ \A t \in DOMAIN tasks' :
                  /\ ~Includes(tasks'[t].dependencies, T)
                  /\ ~Includes(tasks'[t].dependents, T)
                  /\ tasks'[t].status = tasks[t].status
                  /\ tasks'[t].assigned_agent = tasks[t].assigned_agent
            /\ DOMAIN agents' = DOMAIN agents
            /\ \A a \in DOMAIN agents' :
                  ~Includes(agents'[a].claimed_tasks, T)
       ELSE /\ ~last'.ok
            /\ UNCHANGED doc]_vars

\* A claimed task in progress that has a dependent and a registered assignee
\* has been deleted.
C21_Witness ==
  /\ last.op = "deleteTask"
  /\ last.ok
  /\ last.status = "in_progress"
  /\ last.named \in DOMAIN agents
  /\ last.ret # <<>>
  /\ \E d \in Range(last.ret) : d \in DOMAIN tasks

\* ---------------------------------------------------------------------------
\* C22: lost update.  Every save of a claimTask call replaces the document by
\* the object the caller loaded and changed, and the call returns success
\* with its own agent as the assignee; a claim that another caller saved
\* between this caller's load and this save (a different task or a different
\* agent) is absent afterwards, from the task and from the claimed set.
C22_LostUpdate ==
  [][\A p \in Callers :
       (procs[p].pc = "loaded" /\ procs'[p].pc = "returned") =>
         /\ tasks' = procs[p].tasks
         /\ agents' = procs[p].agents
         /\ procs'[p].ok
         /\ tasks'[procs[p].task].assigned_agent = procs[p].agent
         /\ \A i \in 1..Len(procs[p].missed) :
              LET m == procs[p].missed[i] IN
                (m.task # procs[p].task \/ m.agent # procs[p].agent) =>
                  /\ m.task \in DOMAIN tasks' =>
                       tasks'[m.task].assigned_agent # m.agent
                  /\ m.agent \in DOMAIN agents' =>
                       ~Includes(agents'[m.agent].claimed_tasks, m.task)]_vars

\* Both callers have claimed the same task for different agents and both
\* calls returned success; the assignee is the agent of the caller that saved
\* last, and the registered agent whose claim was saved first has an empty
\* claimed set.
C22_Witness ==
  \E p, q \in Callers :
    /\ p # q
    /\ procs[p].pc = "returned" /\ procs[p].ok
    /\ procs[q].pc = "returned" /\ procs[q].ok
    /\ procs[p].task = procs[q].task
    /\ procs[p].agent # procs[q].agent
    /\ procs[p].missed = <<[task |-> procs[q].task, agent |-> procs[q].agent]>>
    /\ tasks[procs[p].task].assigned_agent = procs[p].agent
    /\ procs[q].agent \in DOMAIN agents
    /\ agents[procs[q].agent].claimed_tasks = <<>>

\* ---------------------------------------------------------------------------
\* C23: listAgents reclassifies by elapsed time only.  After the call the
\* document has no active agent with now - last_active > inactive_timeout;
\* an active agent within the window stays active; inactive and terminated
\* agents keep their status; nothing else of an agent changes.  The returned
\* list holds each agent once, without the terminated ones unless
\* includeTerminated is set, ordered by last_active descending.
C23_ListAgentsReclassifies ==
  [][last'.op = "listAgents" =>
       /\ DOMAIN agents' = DOMAIN agents
       /\ \A a \in DOMAIN agents :
            /\ agents'[a].status =
                 IF agents[a].status = "active"
                    /\ now - agents[a].last_active > inactive_timeout
                 THEN "inactive" ELSE agents[a].status
            /\ agents'[a].last_active = agents[a].last_active
            /\ agents'[a].claimed_tasks = agents[a].claimed_tasks
            /\ ~(agents'[a].status = "active"
                 /\ now - agents'[a].last_active > inactive_timeout)
       /\ LET ret == last'.ret
              listed == {a \in DOMAIN agents' :
                           last'.msg = "all" \/ agents'[a].status # "terminated"}
          IN /\ Range(ret) = listed
             /\ Len(ret) = Cardinality(listed)
             /\ \A i, j \in 1..Len(ret) :
                  i < j => agents'[ret[i]].last_active >= agents'[ret[j]].last_active
       /\ UNCHANGED <<tasks, locks, modifications, refactor_suggestions>>]_vars

\* A listing without the terminated agents has reclassified an agent and has
\* left a terminated agent out.
C23_Witness ==
  /\ last.op = "listAgents"
  /\ last.msg = "not terminated"
  /\ last.count >= 1
  /\ \E a \in DOMAIN agents : agents[a].status = "terminated"
  /\ Len(last.ret) = Cardinality(DOMAIN agents) - 1

\* ---------------------------------------------------------------------------
\* C24: cleanupTerminatedAgents(days) removes exactly the agents that are
\* terminated and whose last_active is before now - days, and returns their
\* number; it never removes an active or inactive agent, and it leaves tasks,
\* locks and the remaining agents unchanged.
C24_CleanupExact ==
  [][last'.op = "cleanupTerminatedAgents" =>
       LET days == last'.named
           removed == {a \in DOMAIN agents :
                         /\ agents[a].status = "terminated"
                         /\ agents[a].last_active < now - days * OneDay}
       IN /\ DOMAIN agents' = DOMAIN agents \ removed
          /\ last'.count = Cardinality(removed)
          /\ \A a \in DOMAIN agents :
               agents[a].status \in {"active", "inactive"} => a \in DOMAIN agents'
          /\ \A a \in DOMAIN agents' : agents'[a] = agents[a]
          /\ UNCHANGED <<tasks, locks, modifications, refactor_suggestions>>]_vars

\* A clean-up has removed a terminated agent and kept another agent, while a
\* task is still assigned and a lease is still held.
C24_Witness ==
  /\ last.op = "cleanupTerminatedAgents"
  /\ last.count = 1
  /\ DOMAIN agents # {}
  /\ \E t \in DOMAIN tasks : tasks[t].assigned_agent # NULL
  /\ DOMAIN locks # {}

\* ---------------------------------------------------------------------------
\* C25: waitForLock terminates as time advances.  A pass of its loop made
\* before the elapsed time reaches timeout polls the path: with no unexpired
\* lease on it the call returns released = true, with one it sleeps and never
\* returns released = true.  A pass made once the elapsed time has reached
\* timeout returns released = false with timeout = true.  A call that sleeps
\* returns in the end.
C25_WaitTerminates ==
  /\ [][\A p \in Callers :
         LET w == procs'[p]
             free == w.path \notin DOMAIN locks
                     \/ locks[w.path].expires_at <= now
         IN (w # procs[p] /\ w.op = "waitForLock" /\ w.pc # "idle") =>
              IF now - w.startTime >= w.timeout
              THEN w.pc = "returned" /\ ~w.released /\ w.timedOut
              ELSE IF free
              THEN w.pc = "returned" /\ w.released /\ ~w.timedOut
              ELSE w.pc = "sleep" /\ ~w.released /\ ~w.timedOut]_vars
  /\ \A p \in Callers :
       (procs[p].op = "waitForLock" /\ procs[p].pc = "sleep")
         ~> (procs[p].op = "waitForLock" /\ procs[p].pc = "returned")

\* A call has found a lease, slept, and at a later time returned
\* released = true.
C25_Witness ==
  /\ procs[1].op = "waitForLock"
  /\ procs[1].pc = "returned"
  /\ procs[1].released
  /\ procs[1].wakeAt > procs[1].startTime
  /\ now > procs[1].startTime

\* ---------------------------------------------------------------------------
\* C26: getLockStatus(p) has three outcomes.  No record: locked = false and
\* no change.  An expired record (expires_at <= now): the record is deleted
\* from the document and the result is locked = false, expired = true.  An
\* unexpired record: locked = true with that record and no change.  In all
\* cases the leases on other paths are unchanged.
C26_StatusOutcomes ==
  [][last'.op = "getLockStatus" =>
       LET p == last'.path IN
       /\ IF p \notin DOMAIN locks
          THEN /\ ~last'.ok /\ last'.msg = ""
               /\ UNCHANGED locks
          ELSE IF locks[p].expires_at <= now
          THEN /\ ~last'.ok /\ last'.msg = "expired"
               /\ p \notin DOMAIN locks'
               /\ DOMAIN locks' = DOMAIN locks \ {p}
          ELSE /\ last'.ok /\ last'.msg = "locked"
               /\ last'.info.locked_by = locks[p].locked_by
               /\ last'.info.methods = locks[p].methods
               /\ last'.info.expires_in_ms = locks[p].expires_at
               /\ UNCHANGED locks
       /\ \A q \in DOMAIN locks \ {p} :
            q \in DOMAIN locks' /\ locks'[q] = locks[q]
       /\ UNCHANGED <<tasks, agents, modifications, refactor_suggestions>>]_vars

\* A query found its record expired and deleted it, and the lease on another
\* path is still there.
C26_Witness ==
  /\ last.op = "getLockStatus"
  /\ last.msg = "expired"
  /\ last.path \notin DOMAIN locks
  /\ \E q \in DOMAIN locks : q # last.path

\* ---------------------------------------------------------------------------
\* C27: the refactor heuristic counts only the modifications of the same
\* (path, method) pair, no method matching only no method: on a release with
\* a modification for (p, m) the count is the number of modifications of the
\* last 24 hours, the new one included, with path p and method m; a
\* suggestion is created iff the count has reached the threshold and none
\* exists for (p, m), with priority high from twice the threshold and medium
\* below.
C27_PairHeuristic ==
  [][(last'.op = "releaseLock" /\ last'.ok /\ last'.methods # NoModification)
       => LET p == last'.path
              m == last'.methods[1]
              count == PairCount(modifications', p, m)
              n == Len(refactor_suggestions)
          IN IF count >= auto_refactor_threshold
                /\ ~PairSuggested(refactor_suggestions, p, m)
             THEN /\ refactor_suggestions' =
                       Append(refactor_suggestions, refactor_suggestions'[n + 1])
                  /\ refactor_suggestions'[n + 1].file = p
                  /\ refactor_suggestions'[n + 1].method = m
                  /\ refactor_suggestions'[n + 1].priority =
                       IF count >= 2 * auto_refactor_threshold
                       THEN "high" ELSE "medium"
             ELSE refactor_suggestions' = refactor_suggestions]_vars

\* C27 as amended: on a release with a modification for (p, m) the count is
\* the number of modifications of the last 24 hours, the new one included,
\* with path p and, when m names a method, method m; when m names no method
\* every modification of p counts.  A suggestion for (p, m) is created iff
\* the count has reached the threshold and no suggestion exists for (p, m)
\* or, when m names no method, for p with any method; it records the count,
\* with priority high from twice the threshold and medium below.
C27_KeyHeuristic ==
  [][(last'.op = "releaseLock" /\ last'.ok /\ last'.methods # NoModification)
       => LET p == last'.path
              m == last'.methods[1]
              count == KeyCount(modifications', p, m)
              n == Len(refactor_suggestions)
          IN IF count >= auto_refactor_threshold
                /\ ~KeySuggested(refactor_suggestions, p, m)
             THEN /\ refactor_suggestions' =
                       Append(refactor_suggestions, refactor_suggestions'[n + 1])
                  /\ refactor_suggestions'[n + 1].file = p
                  /\ refactor_suggestions'[n + 1].method = m
                  /\ refactor_suggestions'[n + 1].count = count
                  /\ refactor_suggestions'[n + 1].priority =
                       IF count >= 2 * auto_refactor_threshold
                       THEN "high" ELSE "medium"
             ELSE refactor_suggestions' = refactor_suggestions]_vars

\* The sixth release of f.ts within 24 hours, all naming foo, found no
\* suggestion and created one with priority high.
C27_Witness ==
  /\ last.op = "releaseLock"
  /\ last.ok
  /\ last.methods = <<"foo">>
  /\ Len(modifications) = 2 * auto_refactor_threshold
  /\ \A i \in 1..Len(modifications) : modifications[i].method = "foo"
  /\ refactor_suggestions # <<>>
  /\ LET s == refactor_suggestions[Len(refactor_suggestions)]
     IN /\ s.method = "foo"
        /\ s.count = 2 * auto_refactor_threshold
        /\ s.priority = "high"

\* ---------------------------------------------------------------------------
\* C28: the priority of a suggestion is frozen at creation.  No operation
\* changes the priority, the reason or the key of a suggestion that exists;
\* a suggestion leaves the list only by dismissRefactorSuggestion, which
\* removes one suggestion and leaves the others as they are; a key whose
\* count later reaches twice the threshold keeps its medium suggestion.
C28_SuggestionFrozen ==
  [][LET n == Len(refactor_suggestions) IN
     IF last'.op = "dismissRefactorSuggestion" /\ last'.ok
     THEN \E k \in 1..n :
            /\ refactor_suggestions[k].id = last'.count
            /\ refactor_suggestions' =
                 SubSeq(refactor_suggestions, 1, k - 1)
                 \o SubSeq(refactor_suggestions, k + 1, n)
     ELSE /\ Len(refactor_suggestions') >= n
          /\ SubSeq(refactor_suggestions', 1, n) = refactor_suggestions]_vars

\* A release has brought the count of a key to twice the threshold while the
\* key's suggestion, created at the threshold, is still medium.
C28_Witness ==
  /\ last.op = "releaseLock"
  /\ last.ok
  /\ \E i \in 1..Len(refactor_suggestions) :
       LET s == refactor_suggestions[i] IN
         /\ s.priority = "medium"
         /\ s.count = auto_refactor_threshold
         /\ s.method = last.methods[1]
         /\ KeyCount(modifications, s.file, s.method)
              >= 2 * auto_refactor_threshold

\* ---------------------------------------------------------------------------
\* C29: when waitForLock(p) succeeds, the modifications it returns are exactly
\* the modifications of path p recorded since the wait began (timestamp not
\* earlier than the wait's start); modifications of p recorded before the
\* wait started and modifications of other paths are not returned.
C29_ReturnsSinceStart ==
  [][\A p \in Callers :
       LET w == procs'[p] IN
       (w # procs[p] /\ w.op = "waitForLock" /\ w.pc = "returned" /\ w.released)
         => w.modifications =
              SelectSeq(modifications, LAMBDA m : /\ m.file = w.path
                                                  /\ m.modified_at >= w.startTime)]_vars

\* C29 as amended: when waitForLock(p) succeeds, the modifications it returns
\* are exactly the modifications of path p whose timestamp is later than the
\* wait's start minus 60 seconds, in the order they were recorded; older
\* modifications of p and modifications of other paths are not returned.
C29_ReturnsRecent ==
  [][\A p \in Callers :
       LET w == procs'[p] IN
       (w # procs[p] /\ w.op = "waitForLock" /\ w.pc = "returned" /\ w.released)
         => w.modifications =
              SelectSeq(modifications,
                        LAMBDA m : /\ m.file = w.path
                                   /\ m.modified_at > w.startTime - RecentWindow)]_vars

\* A wait has returned a modification of its path recorded before it began,
\* and has left out an older modification of its path and a modification of
\* another path.
C29_Witness ==
  /\ procs[1].op = "waitForLock"
  /\ procs[1].pc = "returned"
  /\ procs[1].released
  /\ \E i \in 1..Len(procs[1].modifications) :
       procs[1].modifications[i].modified_at < procs[1].startTime
  /\ \E i \in 1..Len(modifications) :
       /\ modifications[i].file = procs[1].path
       /\ modifications[i].modified_at <= procs[1].startTime - RecentWindow
  /\ \E i \in 1..Len(modifications) :
       /\ modifications[i].file # procs[1].path
       /\ modifications[i].modified_at >= procs[1].startTime
  /\ \A i \in 1..Len(procs[1].modifications) :
       procs[1].modifications[i].file = procs[1].path

\* ---------------------------------------------------------------------------
\* C30: the modification history is append-only.  A successful releaseLock
\* that supplied a modification adds one record, of its path, method, agent
\* and time, at the end of the list; every other operation, a failed
\* releaseLock and a release without a modification included, leaves the
\* list as it is.  No record is removed, reordered or edited.
C30_HistoryAppendOnly ==
  [][IF /\ last.op = "idle" /\ last'.op = "releaseLock"
        /\ last'.ok /\ last'.methods # NoModification
     THEN modifications' =
            Append(modifications,
                   [file |-> last'.path, method |-> last'.methods[1],
                    modified_by |-> last'.agent, modified_at |-> now])
     ELSE modifications' = modifications]_vars

\* A release has added the record of its agent behind the record of another
\* agent made at an earlier time.
C30_Witness ==
  /\ last.op = "releaseLock"
  /\ last.ok
  /\ last.methods # NoModification
  /\ Len(modifications) >= 2
  /\ modifications[Len(modifications)].modified_by = last.agent
  /\ modifications[Len(modifications)].modified_at = now
  /\ modifications[1].modified_by # last.agent
  /\ modifications[1].modified_at < now

\* ---------------------------------------------------------------------------
\* The task lifecycle: serialized addTask, claimTask, completeTask, deleteTask
\* and takeoverAgent calls, with the agent commands that bring agents into
\* the document (register, deactivate, cleanup).  No call overrides a status.
NextLifecycle ==
  \/ Return
  \/ /\ last.op = "idle"
     /\ UNCHANGED <<procs, history>>
     /\ \/ \E deps \in DepLists : addTask(deps)
        \/ \E t \in KnownTasks, a \in KnownAgents : claimTask(t, a)
        \/ \E t \in KnownTasks : completeTask(t, "done")
        \/ \E t \in KnownTasks : deleteTask(t)
        \/ getOrCreateCurrentAgent
        \/ deactivateAgent
        \/ \E a \in KnownAgents : takeoverAgent(a)
        \/ cleanupTerminatedAgents(0)

SpecLifecycle == Init /\ [][NextLifecycle]_vars

\* C31: task lifecycle order.  A task reaches status completed only from
\* in_progress with an assigned agent: every successful completeTask(T) is
\* made on a task that is in_progress and has an assignee, and so every
\* completed task has only completed dependencies.
C31_CompletedFromClaimed ==
  [][(last.op = "idle" /\ last'.op = "completeTask" /\ last'.ok)
       => /\ tasks[last'.task].status = "in_progress"
          /\ tasks[last'.task].assigned_agent # NULL]_vars

\* C32: after every successful completeTask(T), also for a T that a
\* takeoverAgent call transferred earlier, T has status completed, its result
\* carries the summary of the call, and T's id is in no agent's claimed set.
C32_CompleteReleasesClaim ==
  [][(last.op = "idle" /\ last'.op = "completeTask" /\ last'.ok)
       => /\ last'.task \in DOMAIN tasks'
          /\ tasks'[last'.task].status = "completed"
          /\ tasks'[last'.task].result = last'.summary
          /\ last'.summary \in Summaries
          /\ \A a \in DOMAIN agents' :
               ~Includes(agents'[a].claimed_tasks, last'.task)]_vars

\* A completeTask call has just succeeded on a task whose assignee is a
\* registered agent that took over a terminated agent: another task it
\* inherited is still in progress (assigned to it, not in its claimed set).
C32_Witness ==
  /\ last.op = "completeTask" /\ last.ok
  /\ tasks[last.task].assigned_agent \in DOMAIN agents
  /\ \E b \in DOMAIN agents :
       /\ b # tasks[last.task].assigned_agent
       /\ agents[b].status = "terminated"
  /\ \E u \in DOMAIN tasks :
       /\ u # last.task
       /\ tasks[u].status = "in_progress"
       /\ tasks[u].assigned_agent = tasks[last.task].assigned_agent
       /\ ~Includes(agents[tasks[u].assigned_agent].claimed_tasks, u)

\* ---------------------------------------------------------------------------
\* The record kept of a task call: a task that appears in the saved document
\* is noted with the dependencies addTask stored for it, and every task the
\* saved document shows completed is noted as completed.
noteHistory ==
  history' =
    [created |->
       [t \in DOMAIN history.created \cup DOMAIN tasks' |->
          IF t \in DOMAIN history.created THEN history.created[t]
          ELSE tasks'[t].dependencies],
     completed |->
       history.completed
         \cup {t \in DOMAIN tasks' : tasks'[t].status = "completed"}]

\* The dependency graph under addTask, claimTask, completeTask and deleteTask
\* calls made one after another, with the record of what they did.
NextDeps ==
  \/ Return
  \/ /\ last.op = "idle"
     /\ UNCHANGED procs
     /\ \/ \E deps \in DepLists : addTask(deps)
        \/ \E t \in KnownTasks, a \in KnownAgents : claimTask(t, a)
        \/ \E t \in KnownTasks : completeTask(t, "done")
        \/ \E t \in KnownTasks : deleteTask(t)
        \/ getOrCreateCurrentAgent
     /\ noteHistory

SpecDeps == Init /\ [][NextDeps]_vars

\* C33 as stated: a task is claimable only when every dependency it was
\* created with has been completed.  Whenever claimTask(B, ...) succeeds,
\* every id in the dependencies B was added with is the id of a task that
\* was completed at some earlier time, also when that task has been deleted.
C33_CreatedDepsCompleted ==
  [][(last.op = "idle" /\ last'.op = "claimTask" /\ last'.ok)
       => \A d \in Range(history.created[last'.task]) :
            d \in history.completed]_vars

\* C33 as amended: whenever claimTask(B, ...) succeeds, every dependency B
\* was created with either is still in B's dependencies and names an
\* existing completed task, or names a task that deleteTask has removed
\* (which took it out of B's dependencies, completed or not).
C33_RemainingDepsCompleted ==
  [][(last.op = "idle" /\ last'.op = "claimTask" /\ last'.ok)
       => \A d \in Range(history.created[last'.task]) :
            \/ /\ d \in DOMAIN tasks
               /\ Includes(tasks[last'.task].dependencies, d)
               /\ tasks[d].status = "completed"
               /\ d \in history.completed
            \/ /\ d \notin DOMAIN tasks
               /\ d \in DOMAIN history.created
               /\ ~Includes(tasks[last'.task].dependencies, d)]_vars

\* A task was claimed although a dependency it was created with was deleted
\* without ever being completed.
C33_Witness ==
  /\ last.op = "claimTask" /\ last.ok
  /\ \E d \in Range(history.created[last.task]) :
       /\ d \in DOMAIN history.created
       /\ d \notin DOMAIN tasks
       /\ d \notin history.completed

\* C34: the dependency graph is acyclic in every reachable state.  No task
\* reaches itself by following dependencies, through one edge or through a
\* chain of existing tasks.
C34_Acyclic ==
  LET deps(t) == {d \in DOMAIN tasks : Includes(tasks[t].dependencies, d)}
      RECURSIVE reach(_, _)
      reach(S, n) ==
        IF n = 0 THEN S
        ELSE reach(S \cup UNION {deps(t) : t \in S}, n - 1)
  IN \A t \in DOMAIN tasks :
       /\ ~Includes(tasks[t].dependencies, t)
       /\ t \notin reach(deps(t), MaxTasks)

\* After a deleteTask call removed a task, addTask has just added a task
\* that depends on an existing task and names the deleted id as well.
C34_Witness ==
  /\ last.op = "addTask"
  /\ last.task \in DOMAIN tasks
  /\ \E a \in DOMAIN tasks, d \in DOMAIN history.created \ DOMAIN tasks :
       /\ Includes(tasks[last.task].dependencies, a)
       /\ Includes(tasks[last.task].dependencies, d)

\* C35: forward and reverse edges stay symmetric.  In every reachable state,
\* for all existing tasks X and D, X is in D.dependents exactly when D is in
\* X.dependencies; every id in a dependents list names an existing task, and
\* no dependents list holds an id twice.
C35_EdgesSymmetric ==
  \A d \in DOMAIN tasks :
    /\ \A x \in DOMAIN tasks :
         Includes(tasks[d].dependents, x) <=> Includes(tasks[x].dependencies, d)
    /\ Range(tasks[d].dependents) \subseteq DOMAIN tasks
    /\ NoDuplicates(tasks[d].dependents)

\* A deleteTask call has just removed a task; a remaining task names one
\* dependency twice and is listed once by that dependency.
C35_Witness ==
  /\ last.op = "deleteTask" /\ last.ok
  /\ \E d \in DOMAIN tasks : tasks[d].dependents # <<>>
  /\ \E x \in DOMAIN tasks : ~NoDuplicates(tasks[x].dependencies)

\* C36: claim sets never overstate ownership.  In every reachable state, a
\* task id in agent A's claimed set names an existing task whose assignee is
\* A; hence no task id is in the claimed sets of two agents, and the claimed
\* set of a terminated agent is empty.
C36_ClaimSetsExact ==
  /\ \A a \in DOMAIN agents : \A t \in Range(agents[a].claimed_tasks) :
       t \in DOMAIN tasks /\ tasks[t].assigned_agent = a
  /\ \A a, b \in DOMAIN agents :
       a # b => Range(agents[a].claimed_tasks)
                  \cap Range(agents[b].claimed_tasks) = {}
  /\ \A a \in DOMAIN agents :
       agents[a].status = "terminated" => agents[a].claimed_tasks = <<>>

\* ---------------------------------------------------------------------------
\* The next command runs in another working copy of the project.  The
\* workflow file is shared between the copies; .agent_id is not (it is listed
\* in .gitignore), so the local identity becomes the one of that copy: none,
\* or an id that getOrCreateCurrentAgent wrote there earlier.
useContext(id) ==
  /\ id \in (1..(nextAgentId - 1)) \cup {NULL}
  /\ id # localAgentId
  /\ localAgentId' = id
  /\ last' = Idle
  /\ UNCHANGED <<tasks, agents, locks, modifications, refactor_suggestions,
                 now, nextTaskId, nextAgentId, granted>>

\* Agents that claim for themselves: claimTask is called with the id that
\* getOrCreateCurrentAgent returned in the same working copy.
NextOwners ==
  \/ Return
  \/ /\ last.op = "idle"
     /\ UNCHANGED <<procs, history>>
     /\ \/ (nextTaskId <= MaxTakeoverTasks /\ addTask(<<>>))
        \/ \E t \in KnownTasks :
             /\ localAgentId \in DOMAIN agents
             /\ claimTask(t, localAgentId)
        \/ \E t \in KnownTasks : completeTask(t, "done")
        \/ \E t \in KnownTasks : deleteTask(t)
        \/ getOrCreateCurrentAgent
        \/ \E a \in KnownAgents : takeoverAgent(a)
        \/ \E id \in (1..MaxAgents) \cup {NULL} : useContext(id)

SpecOwners == Init /\ [][NextOwners]_vars

\* C37: every in-progress task has a live owner.  In every reachable state
\* each task with status in_progress has an assignee that is an agent of the
\* document, is not terminated, and lists the task in its claimed set.
C37_InProgressOwned ==
  \A t \in DOMAIN tasks :
    tasks[t].status = "in_progress"
      => /\ tasks[t].assigned_agent \in DOMAIN agents
         /\ agents[tasks[t].assigned_agent].status # "terminated"
         /\ Includes(agents[tasks[t].assigned_agent].claimed_tasks, t)

\* The agent commands run from several working copies, as time passes.
NextTerminated ==
  \/ Return
  \/ /\ last.op = "idle"
     /\ UNCHANGED <<procs, history>>
     /\ \/ getOrCreateCurrentAgent
        \/ renameAgent
        \/ touchAgent
        \/ deactivateAgent
        \/ \E b \in BOOLEAN : listAgents(b)
        \/ \E d \in 0..1 : cleanupTerminatedAgents(d)
        \/ \E a \in KnownAgents : takeoverAgent(a)
        \/ \E id \in (1..MaxAgents) \cup {NULL} : useContext(id)
        \/ Tick

SpecTerminated == Init /\ [][NextTerminated]_vars

\* C38: terminated is absorbing.  Once an agent's status is terminated, no
\* step changes it to active or inactive, also not getOrCreateCurrentAgent,
\* touchAgent or deactivateAgent called where the local identity names the
\* terminated agent; the agent leaves that state only by being removed by
\* cleanupTerminatedAgents.
C38_TerminatedAbsorbing ==
  [][\A a \in DOMAIN agents :
       agents[a].status = "terminated"
         => IF a \in DOMAIN agents'
            THEN agents'[a].status = "terminated"
            ELSE last'.op = "cleanupTerminatedAgents"]_vars

\* ---------------------------------------------------------------------------
\* The multi-agent workflow of the README: the tasks are added, each with
\* dependencies that name tasks already added; then an agent registers and
\* from then on the set of tasks is fixed.  The agent claims tasks for itself
\* and completes tasks it has claimed.  No task is deleted, no agent is taken
\* over, no status is overridden.  A command runs to its end before the next
\* one starts.
claimAvailable ==
  /\ localAgentId \in DOMAIN agents
  /\ \E t \in DOMAIN tasks :
       /\ isTaskAvailable(tasks[t], tasks)
       /\ claimTask(t, localAgentId)
  /\ UNCHANGED <<procs, history>>

completeClaimed ==
  /\ \E t \in DOMAIN tasks :
       /\ tasks[t].status = "in_progress"
       /\ completeTask(t, "done")
  /\ UNCHANGED <<procs, history>>

NextProgress ==
  \/ /\ localAgentId = NULL
     /\ \E deps \in {<<>>} \cup {<<d>> : d \in DOMAIN tasks}
                        \cup {<<d, e>> : d, e \in DOMAIN tasks} : addTask(deps)
     /\ UNCHANGED <<procs, history>>
  \/ (getOrCreateCurrentAgent /\ UNCHANGED <<procs, history>>)
  \/ claimAvailable
  \/ completeClaimed

SpecProgress == Init /\ [][NextProgress]_vars

\* The agent eventually claims an available task whenever one exists, and
\* eventually completes a task it has claimed.
SpecProgressFair ==
  SpecProgress /\ WF_vars(claimAvailable) /\ WF_vars(completeClaimed)

\* C39: progress without deadlock.  Whenever some task is not completed and
\* no task is in_progress, at least one task is available; and once an agent
\* is registered, under weak fairness of its claims and completions,
\* eventually every task is completed and stays completed.
C39_Progress ==
  /\ []((/\ \E t \in DOMAIN tasks : tasks[t].status # "completed"
         /\ \A t \in DOMAIN tasks : tasks[t].status # "in_progress")
          => \E t \in DOMAIN tasks : isTaskAvailable(tasks[t], tasks))
  /\ (localAgentId \in DOMAIN agents)
       ~> [](\A t \in DOMAIN tasks : tasks[t].status = "completed")

\* The agent has just completed the last of three tasks, one of which had
\* two dependencies and one of which was a dependency of a dependency.
C39_Witness ==
  /\ last.op = "completeTask" /\ last.ok
  /\ localAgentId \in DOMAIN agents
  /\ Cardinality(DOMAIN tasks) = MaxTasks
  /\ \A t \in DOMAIN tasks : tasks[t].status = "completed"
  /\ \E t \in DOMAIN tasks : Cardinality(Range(tasks[t].dependencies)) = 2
  /\ \E a, b, c \in DOMAIN tasks :
       /\ Includes(tasks[b].dependencies, a)
       /\ Includes(tasks[c].dependencies, b)

====
